---- MODULE Spec2Model ----
(***************************************************************************)
(* Model of the pattern store (local_db.py), the Slither call-graph        *)
(* analyzer (call_graph.py), the aggregator (pattern_matcher.py, main.py), *)
(* the cache layer (cache_manager.py), the rule engine                     *)
(* (static_analyzer.py) and the collaborator clients (llm_client.py,       *)
(* solodit_fetcher.py) of the audit agent.                                 *)
(*                                                                         *)
(* Numbers that are floats in the program are fixed-point integers scaled  *)
(* by 100 (similarity 1.0 is 100, min_score 0.92 is 92).  The embedding    *)
(* model is an external collaborator: Encode is a fixed table from the     *)
(* texts of the model to integer vectors whose norms are integers, so the  *)
(* cosine of any two of them is an exact multiple of 1/25.                 *)
(***************************************************************************)
EXTENDS Integers, Sequences, FiniteSets, TLC

VARIABLES
    tableExists,   \* the patterns table exists in the database file
    rows,          \* the rows of the patterns table, in rowid order
    cache,         \* LocalDB._vector_cache of the live instance
    last,          \* the last LocalDB call and its outcome
    cg,            \* CallGraphAnalyzer: its four dictionaries and build status
    agg,           \* the last run of the aggregator and its outcome
    cm,            \* CacheManager: the clock, the cache files, the last call
    agent,         \* AuditAgent of audit_agent.py, and the progress file
    sa,            \* the last StaticAnalyzer.analyze call and its findings
    llm_client,    \* LLMClient: the extract_invariant call in progress
    fetcher,       \* SoloditFetcher, its checkpoint file, the fetch in progress
    pm,            \* PatternMatcher: the last function analyzed in depth
    batch          \* LLMClient: the batch_extract call in progress

dbVars == <<tableExists, rows, cache, last>>
vars == <<tableExists, rows, cache, last, cg, agg, cm, agent, sa, llm_client, fetcher,
          pm, batch>>

----------------------------------------------------------------------------
(* Bounds and input domains of the store model *)

MaxIds == 2
MaxTopK == 2

Ids == 1..MaxIds
\* the texts patterns are stored under
Texts == {"t1", "t3"}
\* the texts searched for; "t0" is a text the encoder maps to the zero vector
Queries == Texts \cup {"t0"}
Severities == {"High"}
Qualities == {4}
Finders == {1}
Protos == {"", "general"}
VulnClasses == {"Reentrancy"}
MinScores == {30, 92}
VulnFilters == {"", "reentrancy"}
Hints == {""}

\* Config.SIMILARITY_THRESHOLD, scaled by 100
SIMILARITY_THRESHOLD == 30
\* default threshold of _is_duplicate, scaled by 100
DUP_THRESHOLD == 92
\* the value numpy gives 0/0; it sorts last in argsort and no comparison
\* "score < min_score" is true of it, as with a number above every score
NaN == 1000

\* SentenceTransformer.encode on the texts of the model
Encode(t) ==
    CASE t = "t1" -> <<3, 4>>
      [] t = "t2" -> <<4, 3>>
      [] t = "t3" -> <<5, 0>>
      [] OTHER    -> <<0, 0>>

Dot(u, v) == u[1] * v[1] + u[2] * v[2]

ISqrt(n) == CHOOSE r \in 0..n : r * r <= n /\ (r + 1) * (r + 1) > n

\* np.linalg.norm
Norm(v) == ISqrt(Dot(v, v))

----------------------------------------------------------------------------
(* Values as Python sees them: a column read back from sqlite is text, a   *)
(* number or a blob, and the operations below depend on which.             *)

Str(s) == [tag |-> "str", s |-> s, n |-> 0]
Num(n) == [tag |-> "num", s |-> "", n |-> n]
Blob == [tag |-> "blob", s |-> "", n |-> 0]

\* json.loads succeeds on the string
JsonLoadsOk(s) == s \in {"[]", "null", "0"}

NoCache == [loaded |-> FALSE, ids |-> <<>>, vectors |-> <<>>, data |-> <<>>]

\* a call of a LocalDB method: its name, the finding id and the text it was
\* given, what it returned or raised, and the list a search returned
Call(op, id, text, ret, res) ==
    [op |-> op, id |-> id, text |-> text, ret |-> ret, res |-> res]

NoCall == Call("none", 0, "", "none", <<>>)

----------------------------------------------------------------------------
(* LocalDB.load_all_vectors *)

\* the row add_pattern writes
Row(id, text, vuln, sev, quality, finders, proto) ==
    [id |-> id, text |-> text, vuln_class |-> vuln, embedding |-> Encode(text),
     severity |-> sev, quality_score |-> quality, finders_count |-> finders,
     protocol_category |-> proto]

\* The SELECT returns id(0), invariant(1), break_condition(2),
\* code_indicators(3), embedding(4), severity(5), finders_count(6),
\* quality_score(7), protocol_category(8), preconditions(9); the dict is
\* filled from row[4]..row[8], one column to the left of each name.
RowData(row) ==
    [id                |-> row.id,
     invariant         |-> row.text,
     severity          |-> Blob,
     finders_count     |-> Str(row.severity),
     quality_score     |-> Num(row.finders_count),
     protocol_category |-> Num(row.quality_score)]

\* "preconditions": json.loads(row[8]) if row[8] else [], and row[8] is the
\* protocol_category text
RowDecodes(row) == row.protocol_category = "" \/ JsonLoadsOk(row.protocol_category)

MapSeq(s, Op(_)) == [i \in 1..Len(s) |-> Op(s[i])]

RowId(row) == row.id
RowVec(row) == row.embedding

\* ids and vectors are appended before the dict is built, so a row whose
\* dict raises is in ids and vectors and not in data
BuildCache(rs) ==
    [loaded  |-> TRUE,
     ids     |-> MapSeq(rs, RowId),
     vectors |-> MapSeq(rs, RowVec),
     data    |-> MapSeq(SelectSeq(rs, RowDecodes), RowData)]

\* [err, cache]: err is "" or the exception raised
load_all_vectors(tbl, rs, c) ==
    IF c.loaded THEN [err |-> "", cache |-> c]
    ELSE IF ~tbl THEN [err |-> "OperationalError", cache |-> c]
    ELSE [err |-> "", cache |-> BuildCache(rs)]

----------------------------------------------------------------------------
(* LocalDB.search_similar *)

Similarity(v, q) ==
    IF Norm(v) > 0
    THEN IF Norm(q) = 0 THEN NaN ELSE (Dot(v, q) * 100) \div (Norm(v) * Norm(q))
    ELSE 0

Similarities(vectors, q) == [i \in 1..Len(vectors) |-> Similarity(vectors[i], q)]

\* the position i takes in np.argsort(similarities): ascending, ties by index
ArgRank(sims, i) ==
    Cardinality({j \in 1..Len(sims) :
        sims[j] < sims[i] \/ (sims[j] = sims[i] /\ j < i)}) + 1

ArgSort(sims) ==
    [p \in 1..Len(sims) |-> CHOOSE i \in 1..Len(sims) : ArgRank(sims, i) = p]

Reverse(s) == [i \in 1..Len(s) |-> s[Len(s) + 1 - i]]

\* s[-n:]
LastN(s, n) == IF Len(s) <= n THEN s ELSE SubSeq(s, Len(s) - n + 1, Len(s))

\* np.argsort(similarities)[-top_k*2:][::-1]
Candidates(sims, top_k) == Reverse(LastN(ArgSort(sims), top_k * 2))

\* a in b, for the lower-cased strings of the model
Contains(a, b) == a = "" \/ a = b

Lower(s) == CASE s = "Reentrancy" -> "reentrancy" [] OTHER -> s

\* [err, boost]
_calculate_rank_boost(data, similarity, protocol_hint) ==
    IF data.finders_count.tag # "num"
    THEN [err |-> "TypeError", boost |-> 0]
    ELSE IF data.quality_score.tag # "num"
    THEN [err |-> "TypeError", boost |-> 0]
    ELSE IF protocol_hint # "" /\ data.protocol_category.tag # "str"
    THEN [err |-> "AttributeError", boost |-> 0]
    ELSE [err |-> "",
          boost |-> similarity
                    + (IF data.finders_count.n <= 2 THEN 15
                       ELSE IF data.finders_count.n <= 5 THEN 8 ELSE 0)
                    + (data.quality_score.n * 10) \div 5
                    + (IF protocol_hint # ""
                          /\ Contains(Lower(protocol_hint),
                                      Lower(data.protocol_category.s))
                       THEN 12 ELSE 0)]

Result(data, similarity, boost) ==
    [id |-> data.id, invariant |-> data.invariant, similarity |-> similarity,
     rank_boost |-> boost]

\* the for loop over the candidate indices: [err, list]
RECURSIVE SearchLoop(_, _, _, _, _, _, _, _)
SearchLoop(c, sims, indices, i, results, min_score, vuln_class, protocol_hint) ==
    IF i > Len(indices) THEN [err |-> "", list |-> results]
    ELSE LET idx == indices[i]
             score == sims[idx]
         IN  IF score < min_score
             THEN SearchLoop(c, sims, indices, i + 1, results, min_score,
                             vuln_class, protocol_hint)
             ELSE IF idx > Len(c.data)
             THEN [err |-> "IndexError", list |-> <<>>]
             \* data carries no "vuln_class" key: data.get("vuln_class", "")
             ELSE IF vuln_class # "" /\ ~Contains(Lower(vuln_class), Lower(""))
             THEN SearchLoop(c, sims, indices, i + 1, results, min_score,
                             vuln_class, protocol_hint)
             ELSE LET rb == _calculate_rank_boost(c.data[idx], score, protocol_hint)
                  IN  IF rb.err # "" THEN [err |-> rb.err, list |-> <<>>]
                      ELSE SearchLoop(c, sims, indices, i + 1,
                               Append(results, Result(c.data[idx], score, rb.boost)),
                               min_score, vuln_class, protocol_hint)

\* key a sorts before key b under sort(key=(rank_boost, similarity), reverse=True)
Before(a, b) ==
    a.rank_boost > b.rank_boost
    \/ (a.rank_boost = b.rank_boost /\ a.similarity > b.similarity)

\* results.sort(..., reverse=True): stable, equal keys keep their order
RECURSIVE SortResults(_)
SortResults(s) ==
    IF Len(s) <= 1 THEN s
    ELSE LET best == CHOOSE i \in 1..Len(s) :
                         /\ \A j \in 1..Len(s) : ~Before(s[j], s[i])
                         /\ \A j \in 1..(i - 1) : Before(s[i], s[j])
             rest == [j \in 1..(Len(s) - 1) |-> IF j < best THEN s[j] ELSE s[j + 1]]
         IN  <<s[best]>> \o SortResults(rest)

FirstN(s, n) == IF Len(s) <= n THEN s ELSE SubSeq(s, 1, n)

\* [err, list, cache]
search_similar(tbl, rs, c, query, top_k, min_score, vuln_class, protocol_hint) ==
    LET ld == load_all_vectors(tbl, rs, c) IN
    IF ld.err # "" THEN [err |-> ld.err, list |-> <<>>, cache |-> ld.cache]
    ELSE IF Len(ld.cache.vectors) = 0
    THEN [err |-> "", list |-> <<>>, cache |-> ld.cache]
    ELSE LET sims == Similarities(ld.cache.vectors, Encode(query))
             lp == SearchLoop(ld.cache, sims, Candidates(sims, top_k), 1, <<>>,
                              min_score, vuln_class, protocol_hint)
         IN  IF lp.err # "" THEN [err |-> lp.err, list |-> <<>>, cache |-> ld.cache]
             ELSE [err |-> "", list |-> FirstN(SortResults(lp.list), top_k),
                   cache |-> ld.cache]

----------------------------------------------------------------------------
(* LocalDB.add_pattern *)

\* [dup, cache]: any exception of the search is swallowed and means "no"
_is_duplicate(tbl, rs, c, text) ==
    LET sr == search_similar(tbl, rs, c, text, 1, DUP_THRESHOLD, "", "") IN
    [dup |-> sr.err = "" /\ Len(sr.list) > 0, cache |-> sr.cache]

\* INSERT OR REPLACE: a row with the same id is deleted, the new row gets a
\* fresh rowid and so comes last
InsertOrReplace(rs, row) ==
    LET NotSameId(r) == r.id # row.id IN Append(SelectSeq(rs, NotSameId), row)

\* [ret, rows, cache]
add_pattern(tbl, rs, c, row) ==
    LET d == _is_duplicate(tbl, rs, c, row.text) IN
    IF d.dup THEN [ret |-> "False", rows |-> rs, cache |-> d.cache]
    \* the INSERT raises "no such table", caught by the except
    ELSE IF ~tbl THEN [ret |-> "False", rows |-> rs, cache |-> d.cache]
    ELSE [ret |-> "True", rows |-> InsertOrReplace(rs, row), cache |-> d.cache]

----------------------------------------------------------------------------
(* The operations of one LocalDB instance on one database file *)

InitDb ==
    /\ tableExists' = TRUE
    /\ last' = Call("init_db", 0, "", "None", <<>>)
    /\ UNCHANGED <<rows, cache, cg, agg, cm, agent, sa, llm_client, fetcher, pm, batch>>

\* LocalDB(): connects to the file, _vector_cache = None; the table is
\* not created
NewInstance ==
    /\ cache' = NoCache
    /\ last' = Call("new", 0, "", "None", <<>>)
    /\ UNCHANGED <<tableExists, rows, cg, agg, cm, agent, sa, llm_client, fetcher, pm, batch>>

AddPattern ==
    \E id \in Ids, text \in Texts, vuln \in VulnClasses, sev \in Severities,
       quality \in Qualities, finders \in Finders, proto \in Protos :
        LET r == add_pattern(tableExists, rows, cache,
                             Row(id, text, vuln, sev, quality, finders, proto))
        IN  /\ rows' = r.rows
            /\ cache' = r.cache
            /\ last' = Call("add", id, text, r.ret, <<>>)
            /\ UNCHANGED <<tableExists, cg, agg, cm, agent, sa, llm_client, fetcher, pm, batch>>

LoadAllVectors ==
    LET r == load_all_vectors(tableExists, rows, cache) IN
    /\ cache' = r.cache
    /\ last' = Call("load", 0, "", IF r.err = "" THEN "cache" ELSE r.err, <<>>)
    /\ UNCHANGED <<tableExists, rows, cg, agg, cm, agent, sa, llm_client, fetcher, pm, batch>>

SearchSimilar ==
    \E query \in Queries, top_k \in 1..MaxTopK, min_score \in MinScores,
       vuln_class \in VulnFilters, protocol_hint \in Hints :
        LET r == search_similar(tableExists, rows, cache, query, top_k,
                                min_score, vuln_class, protocol_hint)
        IN  /\ cache' = r.cache
            /\ last' = Call("search", 0, query,
                            IF r.err = "" THEN "list" ELSE r.err, r.list)
            /\ UNCHANGED <<tableExists, rows, cg, agg, cm, agent, sa, llm_client, fetcher, pm, batch>>

\* the store operations, over the store variables only
DbInit ==
    /\ tableExists = FALSE
    /\ rows = <<>>
    /\ cache = NoCache
    /\ last = NoCall

TypeOK ==
    /\ tableExists \in BOOLEAN
    /\ Len(rows) <= MaxIds
    /\ last.ret \in {"none", "None", "True", "False", "cache", "list",
                     "OperationalError", "TypeError", "IndexError", "AttributeError"}

----------------------------------------------------------------------------
(* Claims about the pattern store *)

DefaultSearch(query, top_k) ==
    search_similar(tableExists, rows, cache, query, top_k,
                   SIMILARITY_THRESHOLD, "", "")

Sorted(list) ==
    \A i \in 1..(Len(list) - 1) : list[i].rank_boost >= list[i + 1].rank_boost

C4_EmptyStoreSearch ==
    Len(rows) = 0 =>
        \A query \in Queries, top_k \in 1..MaxTopK :
            LET r == DefaultSearch(query, top_k) IN
            r.err = "" /\ r.list = <<>>

----------------------------------------------------------------------------
(* CallGraphAnalyzer (call_graph.py) *)

FuncNames == {"A", "B"}
StateVars == {"balance"}
\* what str() gives for the callees Slither reports: a function of the
\* project or the Solidity built-in
CalleeLists == {<<>>, <<"A">>, <<"B">>, <<"delegatecall">>}
\* what str() gives for the external calls of a function
ExternalLists == {<<>>, <<"target.delegatecall(msg.data)">>}
Visibilities == {"external", "internal"}

\* the functions Slither yields for a project: A, then B
Functions ==
    [name : FuncNames, visibility : Visibilities, internal_calls : CalleeLists,
     external_calls : ExternalLists, reads : SUBSET StateVars,
     writes : SUBSET StateVars]

Projects == {p \in [1..2 -> Functions] : p[1].name = "A" /\ p[2].name = "B"}

\* a dict keyed by function name: the keys in insertion order and the values
EmptyDict == [keys |-> <<>>, val |-> [n \in {} |-> <<>>]]

InDict(d, k) == \E i \in 1..Len(d.keys) : d.keys[i] = k

Put(d, k, v) ==
    [keys |-> IF InDict(d, k) THEN d.keys ELSE Append(d.keys, k),
     val  |-> [n \in (DOMAIN d.val) \cup {k} |-> IF n = k THEN v ELSE d.val[n]]]

\* dict.get(k, [])
Get(d, k) == IF InDict(d, k) THEN d.val[k] ELSE <<>>

\* set(dict.get(k, []))
GetSet(d, k) == IF InDict(d, k) THEN d.val[k] ELSE {}

Range(s) == {s[i] : i \in 1..Len(s)}

\* CallGraphAnalyzer(path); out is the last method called on the analyzer
\* and the findings it returned
NewAnalyzer(project) ==
    [project |-> project, built |-> "none",
     call_graph |-> EmptyDict, external_calls |-> EmptyDict,
     state_reads |-> EmptyDict, state_writes |-> EmptyDict,
     out |-> [op |-> "none", findings |-> <<>>]]

\* The four assignments of the loop body for function f; an exception while
\* the n-th right-hand side is evaluated leaves the first n-1 done.
ProcessFunction(g, f, n) ==
    [g EXCEPT
        !.call_graph     = IF n > 1 THEN Put(@, f.name, f.internal_calls) ELSE @,
        !.external_calls = IF n > 2 THEN Put(@, f.name, f.external_calls) ELSE @,
        !.state_reads    = IF n > 3 THEN Put(@, f.name, f.reads) ELSE @,
        !.state_writes   = IF n > 4 THEN Put(@, f.name, f.writes) ELSE @]

\* where build_graph fails: never, at the import, in Slither(path), or in
\* function i while its n-th right-hand side is evaluated
FailPoints ==
    {[at |-> "never", i |-> 0, n |-> 0], [at |-> "import", i |-> 0, n |-> 0],
     [at |-> "slither", i |-> 0, n |-> 0]}
    \cup {[at |-> "function", i |-> i, n |-> n] : i \in 1..2, n \in 1..4}

RECURSIVE BuildLoop(_, _, _)
BuildLoop(g, i, fail) ==
    IF i > 2 THEN [g EXCEPT !.built = "True"]
    ELSE IF fail.at = "function" /\ fail.i = i
    THEN [ProcessFunction(g, g.project[i], fail.n) EXCEPT !.built = "False"]
    ELSE BuildLoop(ProcessFunction(g, g.project[i], 5), i + 1, fail)

build_graph(g, fail) ==
    IF fail.at \in {"import", "slither"} THEN [g EXCEPT !.built = "False"]
    ELSE BuildLoop(g, 1, fail)

\* the findings of the inner loop of find_cross_function_reentrancy for func_a
RECURSIVE ReentrancyOf(_, _, _)
ReentrancyOf(g, func_a, j) ==
    LET callees == Get(g.call_graph, func_a) IN
    IF j > Len(callees) THEN <<>>
    ELSE LET called_func == callees[j]
             shared == GetSet(g.state_reads, func_a) \cap GetSet(g.state_writes, called_func)
             hit == /\ InDict(g.external_calls, called_func)
                    /\ shared # {}
                    /\ Get(g.external_calls, called_func) # <<>>
         IN  (IF hit
              THEN <<[type |-> "cross_function_reentrancy", severity |-> "critical",
                      entry_point |-> func_a, external_call_function |-> called_func,
                      attack_path |-> <<func_a, called_func>>]>>
              ELSE <<>>) \o ReentrancyOf(g, func_a, j + 1)

RECURSIVE ReentrancyFrom(_, _)
ReentrancyFrom(g, i) ==
    IF i > Len(g.call_graph.keys) THEN <<>>
    ELSE ReentrancyOf(g, g.call_graph.keys[i], 1) \o ReentrancyFrom(g, i + 1)

find_cross_function_reentrancy(g) == ReentrancyFrom(g, 1)

\* 'delegatecall' in str(calls).lower()
HasDelegatecall(calls) == "delegatecall" \in Range(calls)
\* 'msg.data' in str(external calls)
HasMsgData(calls) == "target.delegatecall(msg.data)" \in Range(calls)

find_delegatecall_injection(g) ==
    LET Hit(func) == /\ HasDelegatecall(Get(g.call_graph, func))
                     /\ HasMsgData(Get(g.external_calls, func))
        Finding(func) == [type |-> "delegatecall_injection", severity |-> "critical",
                          function |-> func]
    IN  MapSeq(SelectSeq(g.call_graph.keys, Hit), Finding)

find_flash_loan_entry_points(g) ==
    LET Callers(func) ==
            LET Calls(f) == func \in Range(Get(g.call_graph, f))
            IN  SelectSeq(g.call_graph.keys, Calls)
        Hit(func) == Get(g.external_calls, func) # <<>> /\ Callers(func) # <<>>
        Finding(func) == [type |-> "flash_loan_callback_vector", severity |-> "high",
                          function |-> func, called_by |-> Callers(func)]
    IN  MapSeq(SelectSeq(g.external_calls.keys, Hit), Finding)

Construct ==
    /\ cg.project = <<>>
    /\ \E project \in Projects : cg' = NewAnalyzer(project)
    /\ UNCHANGED <<dbVars, agg, cm, agent, sa, llm_client, fetcher, pm, batch>>

BuildGraph ==
    /\ cg.built = "none"
    /\ cg.project # <<>>
    /\ \E fail \in FailPoints :
           cg' = [build_graph(cg, fail) EXCEPT !.out = [op |-> "build", findings |-> <<>>]]
    /\ UNCHANGED <<dbVars, agg, cm, agent, sa, llm_client, fetcher, pm, batch>>

FindCrossFunctionReentrancy ==
    /\ cg.project # <<>>
    /\ cg' = [cg EXCEPT !.out = [op |-> "reentrancy",
                                 findings |-> find_cross_function_reentrancy(cg)]]
    /\ UNCHANGED <<dbVars, agg, cm, agent, sa, llm_client, fetcher, pm, batch>>

FindDelegatecallInjection ==
    /\ cg.project # <<>>
    /\ cg' = [cg EXCEPT !.out = [op |-> "delegatecall",
                                 findings |-> find_delegatecall_injection(cg)]]
    /\ UNCHANGED <<dbVars, agg, cm, agent, sa, llm_client, fetcher, pm, batch>>

FindFlashLoanEntryPoints ==
    /\ cg.project # <<>>
    /\ cg' = [cg EXCEPT !.out = [op |-> "flash_loan",
                                 findings |-> find_flash_loan_entry_points(cg)]]
    /\ UNCHANGED <<dbVars, agg, cm, agent, sa, llm_client, fetcher, pm, batch>>

----------------------------------------------------------------------------
(* The aggregator: PatternMatcher.analyze_target, run by AuditAgent.audit  *)
(* of main.py on what TargetParser.parse_all returns; and AuditAgent.audit *)
(* of audit_agent.py.                                                      *)

MaxFunctions == 2

\* the cutoff of sniper mode
SNIPER_CUTOFF == 70
\* a function is analyzed in depth above this risk_score
HIGH_RISK == 20
\* the number of names get_stats is unpacked into by analyze_target
STATS_NAMES == 3
\* the number of values LocalDB.get_stats returns
STATS_VALUES == 4

\* what StaticAnalyzer.analyze yields on a function's code: the rule
\* findings, each with the severity and the fixed score of its rule
StaticResults ==
    {<<>>,
     <<[severity |-> "medium", score |-> 65],
       [severity |-> "critical", score |-> 90],
       [severity |-> "critical", score |-> 95]>>}

\* The risk_score extract_function_details can return: the branches that
\* read Config raise NameError (target_parser.py does not import it) and
\* parse_file skips the function, so only selfdestruct (50) and tx.origin
\* (20) add to the score.  Here: a function with neither, and one with
\* selfdestruct.
RiskScores == {0, 50}

\* a function dict of parse_file: keyed "name", not "function"; static
\* stands for its "code", as what the rule engine finds in it
ParsedFunctions == [name : {"withdraw"}, risk_score : RiskScores, static : StaticResults]

\* the cross-function findings of TargetParser.analyze_cross_function
CrossBugLists == {<<>>, <<"cross_function_reentrancy">>, <<"flash_loan_vector">>}

\* a file dict of parse_file: it has no "type" and no "bugs" key
ParsedFiles ==
    [file : {"Vault.sol"}, cross_function_bugs : CrossBugLists,
     functions : UNION {[1..n -> ParsedFunctions] : n \in 0..MaxFunctions}]

\* parse_all: the list of parsed files (here none or one)
ParseResults == {<<>>} \cup {<<f>> : f \in ParsedFiles}

\* how the hypothesis collaborator behaves when called
LlmBehaviours == {"answers", "raises", "times_out"}

\* LocalDB.get_stats: the SELECT of a 4-tuple
get_stats(tbl) ==
    IF tbl THEN [err |-> "", values |-> STATS_VALUES]
    ELSE [err |-> "OperationalError", values |-> 0]

AllFunctions(files) ==
    IF Len(files) = 0 THEN <<>> ELSE files[1].functions

HighRisk(f) == f.risk_score > HIGH_RISK

\* Lines 49-217 on the file dicts of parse_file: file_data.get("type") is
\* None and file_data.get("bugs") is [], so no cross-function bug is
\* collected; no function carries "cross_function_vulnerable"; the loop over
\* the high-risk functions reads func['function'] in its first iteration,
\* which the dicts do not have.  With no high-risk function the empty
\* finding list is sorted and returned.
AnalyzeBody(files) ==
    IF SelectSeq(AllFunctions(files), HighRisk) # <<>>
    THEN [err |-> "KeyError", findings |-> <<>>]
    ELSE [err |-> "", findings |-> <<>>]

\* PatternMatcher.analyze_target on a new PatternMatcher (a new LocalDB)
analyze_target(tbl, rs, files) ==
    LET ld == load_all_vectors(tbl, rs, NoCache)
        st == get_stats(tbl)
    IN  IF ld.err # "" THEN [err |-> ld.err, findings |-> <<>>]
        ELSE IF st.err # "" THEN [err |-> st.err, findings |-> <<>>]
        \* total, avg_finders, classes = self.db.get_stats()
        ELSE IF st.values # STATS_NAMES THEN [err |-> "ValueError", findings |-> <<>>]
        ELSE AnalyzeBody(files)

AtLeastCutoff(f) == f.score >= SNIPER_CUTOFF

Run(op, files, sniper, llm, ret, findings) ==
    [op |-> op, files |-> files, sniper |-> sniper, llm |-> llm,
     ret |-> ret, findings |-> findings]

NoRun == Run("none", <<>>, FALSE, "answers", "none", <<>>)

\* AuditAgent.audit of main.py: [ret, findings], ret is "None", "list" or
\* the exception that leaves audit
audit(tbl, rs, files, sniper_mode) ==
    IF files = <<>> THEN [ret |-> "None", findings |-> <<>>]
    ELSE LET r == analyze_target(tbl, rs, files) IN
         IF r.err # "" THEN [ret |-> r.err, findings |-> <<>>]
         ELSE IF r.findings = <<>> THEN [ret |-> "None", findings |-> <<>>]
         ELSE [ret |-> "list",
               findings |-> IF sniper_mode THEN SelectSeq(r.findings, AtLeastCutoff)
                            ELSE r.findings]

Audit ==
    \E files \in ParseResults, sniper_mode \in BOOLEAN, llm \in LlmBehaviours :
        LET r == audit(tableExists, rows, files, sniper_mode) IN
        /\ agg' = Run("main.audit", files, sniper_mode, llm, r.ret, r.findings)
        /\ UNCHANGED <<dbVars, cg, cm, agent, sa, llm_client, fetcher, pm, batch>>

----------------------------------------------------------------------------
(* The cache layer: CacheManager over its cache directory.  Time is in      *)
(* hours; sizes are in units of 20MB, so max_cache_size (100MB) is 5.       *)

MaxClock == 2

\* max_cache_size = 100 * 1024 * 1024, in units of 20MB
max_cache_size == 5
\* the 80% threshold of enforce_size_limit, as a fraction num/den
THRESHOLD_NUM == 8
THRESHOLD_DEN == 10

\* ttl_hours of save_llm_response and max_age_hours of load_slither_result
TtlHours == {1}

PromptHashes == {"h1"}

\* the st_mtime of the contract file; 0: the file does not exist
SourceMtimes == {1}
NoSource == 0

\* _compute_hash(contract_path): SHA-256 of content + mtime of an existing
\* file (one digest per version of the file), else of the path string
_compute_hash(source) ==
    IF source \in SourceMtimes THEN "k1" ELSE "kpath"

EMBEDDING == "embedding_cache.pkl"
LlmFile(prompt_hash) == "llm/" \o prompt_hash \o ".json"
SlitherFile(cache_key) == "slither/" \o cache_key \o ".json"

LlmFiles == {LlmFile(h) : h \in PromptHashes}
SlitherFiles == {SlitherFile(_compute_hash(m)) : m \in SourceMtimes \cup {NoSource}}
FileNames == {EMBEDDING} \cup LlmFiles \cup SlitherFiles

\* What a cache file holds.  kind: "none" (no file), "ok" (what the save
\* wrote), "corrupt" (open or deserialisation raises), "no_timestamp" (JSON
\* without the "timestamp" key), "not_a_dict" (a pickle of a list),
\* "partial_dict" (a pickle of a dict without "vectors" and "data");
\* "no_access" is how a file looks to the process while the cache directory
\* cannot be searched (stat raises PermissionError).
CacheFile(kind, timestamp, ttl, mtime, payload, atime, size) ==
    [kind |-> kind, timestamp |-> timestamp, ttl |-> ttl, mtime |-> mtime,
     payload |-> payload, atime |-> atime, size |-> size]

NoFile == CacheFile("none", 0, 0, 0, "", 0, 0)

\* what save_llm_response is given: a tuple, a dict (the larger payload),
\* and a value json.dump raises on (a set)
Responses == {"tuple", "dict", "set"}
Serialisable(response) == response # "set"
\* json.dump writes a tuple as an array, which json.load reads as a list
JsonForm(response) == IF response = "tuple" THEN "list" ELSE response
ResponseSize(response) == IF response = "dict" THEN 3 ELSE 1

SLITHER_SIZE == 1
EMBEDDING_SIZE == 2

\* the vectors save_embedding_cache is given: the _vector_cache of a LocalDB
\* (these two, and that of the live LocalDB once it is loaded)
SnapshotInputs ==
    {BuildCache(<<>>), BuildCache(<<Row(1, "t1", "Reentrancy", "High", 4, 1, "")>>)}

\* how a file is damaged from outside
DamageKinds == {"corrupt", "no_timestamp", "not_a_dict", "partial_dict"}

\* the outcome of a call: hit with a value, or None; raised: an exception
\* left the method; pre: the file looked up, as it was before the call;
\* total: the size of the cache after the write of a save and before any
\* eviction; evicted: the files removed, with their access times
Outcome(op, file, age, hit, value, raised, pre, total, evicted) ==
    [op |-> op, file |-> file, age |-> age, hit |-> hit, value |-> value,
     raised |-> raised, pre |-> pre, total |-> total, evicted |-> evicted]

NoOutcome == Outcome("none", "", 0, FALSE, "", FALSE, NoFile, 0, {})

NewCacheManager ==
    [now |-> 0, source |-> 1, access |-> TRUE,
     files |-> [n \in FileNames |-> NoFile], out |-> NoOutcome]

\* the file as a lookup finds it
Seen(f, access) == IF access THEN f ELSE CacheFile("no_access", 0, 0, 0, "", 0, 0)

Present(files) == {n \in FileNames : files[n].kind # "none"}

RECURSIVE SumSizes(_, _)
SumSizes(files, names) ==
    IF names = {} THEN 0
    ELSE LET n == CHOOSE x \in names : TRUE
         IN  files[n].size + SumSizes(files, names \ {n})

_get_total_cache_size(files) == SumSizes(files, Present(files))

\* the total a process without access to the directory could count is 0
SeenTotal(files, access) == IF access THEN _get_total_cache_size(files) ELSE 0

\* open(file), read: the access time becomes now
Touch(f, now) == [f EXCEPT !.atime = now]

\* save_embedding_cache
SaveEmbeddingCache ==
    \E vectors \in SnapshotInputs \cup (IF cache.loaded THEN {cache} ELSE {}) :
        LET files == IF cm.access
                     THEN [cm.files EXCEPT ![EMBEDDING] =
                             CacheFile("ok", cm.now, 0, 0, vectors, cm.now, EMBEDDING_SIZE)]
                     ELSE cm.files
        IN  /\ cm' = [cm EXCEPT !.files = files,
                        !.out = Outcome("save_embedding_cache", EMBEDDING, 0, cm.access,
                                        IF cm.access THEN "True" ELSE "False",
                                        FALSE, Seen(cm.files[EMBEDDING], cm.access),
                                        SeenTotal(files, cm.access), {})]
            /\ UNCHANGED <<dbVars, cg, agg, agent, sa, llm_client, fetcher, pm, batch>>

\* load_embedding_cache: [hit, value, raised, file']
load_embedding_cache(f, access, now) ==
    \* self.embedding_cache_file.exists() is outside the try: Path.exists
    \* re-raises an OSError other than ENOENT, ENOTDIR, EBADF, ELOOP
    IF ~access THEN [hit |-> FALSE, value |-> "PermissionError", raised |-> TRUE, file |-> f]
    ELSE IF f.kind = "none"
         THEN [hit |-> FALSE, value |-> "None", raised |-> FALSE, file |-> f]
    ELSE IF f.kind \in {"ok", "partial_dict"}
         THEN [hit |-> TRUE, value |-> f.payload, raised |-> FALSE, file |-> Touch(f, now)]
    \* pickle.load raises, or vectors.get raises AttributeError
    ELSE [hit |-> FALSE, value |-> "None", raised |-> FALSE, file |-> Touch(f, now)]

LoadEmbeddingCache ==
    LET r == load_embedding_cache(cm.files[EMBEDDING], cm.access, cm.now) IN
    /\ cm' = [cm EXCEPT !.files[EMBEDDING] = r.file,
                !.out = Outcome("load_embedding_cache", EMBEDDING, 0, r.hit, r.value,
                                r.raised, Seen(cm.files[EMBEDDING], cm.access), 0, {})]
    /\ UNCHANGED <<dbVars, cg, agg, agent, sa, llm_client, fetcher, pm, batch>>

\* save_slither_result: contract_path.stat() raises before the file is
\* opened when the contract file does not exist
SaveSlitherResult ==
    LET name == SlitherFile(_compute_hash(cm.source))
        ok == cm.access /\ cm.source # NoSource
        files == IF ok
                 THEN [cm.files EXCEPT ![name] =
                         CacheFile("ok", cm.now, 0, cm.source, "result", cm.now, SLITHER_SIZE)]
                 ELSE cm.files
    IN  /\ cm' = [cm EXCEPT !.files = files,
                    !.out = Outcome("save_slither_result", name, 0, ok,
                                    IF ok THEN "True" ELSE "False", FALSE,
                                    Seen(cm.files[name], cm.access),
                                    SeenTotal(files, cm.access), {})]
        /\ UNCHANGED <<dbVars, cg, agg, agent, sa, llm_client, fetcher, pm, batch>>

\* load_slither_result: [hit, value, file']
load_slither_result(f, access, source, max_age_hours, now) ==
    \* _compute_hash or cache_file.exists() raises inside the try
    IF ~access THEN [hit |-> FALSE, value |-> "None", file |-> f]
    ELSE IF f.kind = "none" THEN [hit |-> FALSE, value |-> "None", file |-> f]
    \* json.load or cached_data["timestamp"] raises
    ELSE IF f.kind # "ok" THEN [hit |-> FALSE, value |-> "None", file |-> Touch(f, now)]
    \* expired: a miss, the file stays
    ELSE IF now - f.timestamp > max_age_hours
         THEN [hit |-> FALSE, value |-> "None", file |-> Touch(f, now)]
    \* contract_path.stat() raises, or the mtime differs
    ELSE IF source = NoSource \/ source # f.mtime
         THEN [hit |-> FALSE, value |-> "None", file |-> Touch(f, now)]
    ELSE [hit |-> TRUE, value |-> f.payload, file |-> Touch(f, now)]

LoadSlitherResult ==
    \E max_age_hours \in TtlHours :
        LET name == SlitherFile(_compute_hash(cm.source))
            r == load_slither_result(cm.files[name], cm.access, cm.source,
                                     max_age_hours, cm.now)
        IN  /\ cm' = [cm EXCEPT !.files[name] = r.file,
                        !.out = Outcome("load_slither_result", name, max_age_hours,
                                        r.hit, r.value, FALSE,
                                        Seen(cm.files[name], cm.access), 0, {})]
            /\ UNCHANGED <<dbVars, cg, agg, agent, sa, llm_client, fetcher, pm, batch>>

\* save_llm_response: open(cache_file, 'w') truncates the file before
\* json.dump runs, so a response json.dump raises on leaves a file that
\* does not parse
SaveLlmResponse ==
    \E prompt_hash \in PromptHashes, response \in Responses, ttl_hours \in TtlHours :
        LET name == LlmFile(prompt_hash)
            ok == cm.access /\ Serialisable(response)
            files == [cm.files EXCEPT ![name] =
                        IF ~cm.access THEN cm.files[name]
                        ELSE IF ok THEN CacheFile("ok", cm.now, ttl_hours, 0,
                                                  JsonForm(response), cm.now,
                                                  ResponseSize(response))
                        ELSE CacheFile("corrupt", 0, 0, 0, "", cm.now, 1)]
        IN  /\ cm' = [cm EXCEPT !.files = files,
                        !.out = Outcome("save_llm_response", name, ttl_hours, ok,
                                        IF ok THEN "True" ELSE "False", FALSE,
                                        Seen(cm.files[name], cm.access),
                                        SeenTotal(files, cm.access), {})]
            /\ UNCHANGED <<dbVars, cg, agg, agent, sa, llm_client, fetcher, pm, batch>>

\* load_llm_response without the unlink of an expired entry
load_llm_response_keeps_expired(f, access, now) ==
    IF ~access THEN [hit |-> FALSE, value |-> "None", file |-> f]
    ELSE IF f.kind = "none" THEN [hit |-> FALSE, value |-> "None", file |-> f]
    ELSE IF f.kind # "ok" THEN [hit |-> FALSE, value |-> "None", file |-> Touch(f, now)]
    ELSE IF now - f.timestamp > f.ttl
         THEN [hit |-> FALSE, value |-> "None", file |-> Touch(f, now)]
    ELSE [hit |-> TRUE, value |-> f.payload, file |-> Touch(f, now)]

\* load_llm_response: [hit, value, file']
load_llm_response(f, access, now) ==
    \* cache_file.exists() raises inside the try
    IF ~access THEN [hit |-> FALSE, value |-> "None", file |-> f]
    ELSE IF f.kind = "none" THEN [hit |-> FALSE, value |-> "None", file |-> f]
    ELSE IF f.kind # "ok" THEN [hit |-> FALSE, value |-> "None", file |-> Touch(f, now)]
    \* expired: cache_file.unlink()
    ELSE IF now - f.timestamp > f.ttl THEN [hit |-> FALSE, value |-> "None", file |-> NoFile]
    ELSE [hit |-> TRUE, value |-> f.payload, file |-> Touch(f, now)]

LoadLlmResponse ==
    \E prompt_hash \in PromptHashes :
        LET name == LlmFile(prompt_hash)
            r == load_llm_response(cm.files[name], cm.access, cm.now)
        IN  /\ cm' = [cm EXCEPT !.files[name] = r.file,
                        !.out = Outcome("load_llm_response", name, cm.files[name].ttl,
                                        r.hit, r.value, FALSE,
                                        Seen(cm.files[name], cm.access), 0, {})]
            /\ UNCHANGED <<dbVars, cg, agg, agent, sa, llm_client, fetcher, pm, batch>>

CacheTypes == {"all", "embedding", "slither", "llm"}

Cleared(cache_type) ==
    (IF cache_type \in {"all", "embedding"} THEN {EMBEDDING} ELSE {})
    \cup (IF cache_type \in {"all", "slither"} THEN SlitherFiles ELSE {})
    \cup (IF cache_type \in {"all", "llm"} THEN LlmFiles ELSE {})

\* exists() or unlink() raises inside the try when the directory cannot be
\* searched, and nothing is removed
clear_cache(files, access, cache_type) ==
    IF ~access THEN files
    ELSE [n \in FileNames |-> IF n \in Cleared(cache_type) THEN NoFile ELSE files[n]]

ClearCache ==
    \E cache_type \in CacheTypes :
        /\ cm' = [cm EXCEPT !.files = clear_cache(cm.files, cm.access, cache_type),
                    !.out = Outcome("clear_cache", cache_type, 0, cm.access,
                                    IF cm.access THEN "True" ELSE "False", FALSE,
                                    NoFile, 0, {})]
        /\ UNCHANGED <<dbVars, cg, agg, agent, sa, llm_client, fetcher, pm, batch>>

UnderThreshold(total) == total * THRESHOLD_DEN <= max_cache_size * THRESHOLD_NUM

\* cache_files.sort(key=atime): the file to remove next is one of the
\* least recently accessed
Oldest(files, names) ==
    CHOOSE n \in names : \A o \in names : files[n].atime <= files[o].atime

\* the loop of enforce_size_limit over the files sorted by access time
RECURSIVE EvictLoop(_, _)
EvictLoop(files, names) ==
    IF names = {} \/ UnderThreshold(_get_total_cache_size(files)) THEN files
    ELSE LET n == Oldest(files, names)
         IN  EvictLoop([files EXCEPT ![n] = NoFile], names \ {n})

\* without access to the directory nothing is listed or removed
enforce_size_limit(files, access) ==
    IF ~access \/ _get_total_cache_size(files) <= max_cache_size THEN files
    ELSE EvictLoop(files, Present(files))

EnforceSizeLimit ==
    LET files == enforce_size_limit(cm.files, cm.access) IN
    /\ cm' = [cm EXCEPT !.files = files,
                !.out = Outcome("enforce_size_limit", "", 0, TRUE, "True", FALSE, NoFile,
                                SeenTotal(cm.files, cm.access),
                                {[name |-> n, atime |-> cm.files[n].atime] :
                                    n \in Present(cm.files) \ Present(files)})]
    /\ UNCHANGED <<dbVars, cg, agg, agent, sa, llm_client, fetcher, pm, batch>>

\* an hour passes
Tick ==
    /\ cm.now < MaxClock
    /\ cm' = [cm EXCEPT !.now = cm.now + 1, !.out = NoOutcome]
    /\ UNCHANGED <<dbVars, cg, agg, agent, sa, llm_client, fetcher, pm, batch>>

\* the contract file is deleted
DeleteSource ==
    /\ cm.source # NoSource
    /\ cm' = [cm EXCEPT !.source = NoSource, !.out = NoOutcome]
    /\ UNCHANGED <<dbVars, cg, agg, agent, sa, llm_client, fetcher, pm, batch>>

\* the search permission of the cache directory is taken away or given back
SetAccess ==
    /\ cm' = [cm EXCEPT !.access = ~cm.access, !.out = NoOutcome]
    /\ UNCHANGED <<dbVars, cg, agg, agent, sa, llm_client, fetcher, pm, batch>>

\* a cache file is damaged from outside the program
Damage ==
    \E n \in FileNames, kind \in DamageKinds :
        /\ cm.files[n].kind = "ok"
        /\ kind \in (IF n = EMBEDDING THEN {"corrupt", "not_a_dict", "partial_dict"}
                     ELSE {"corrupt", "no_timestamp"})
        /\ cm' = [cm EXCEPT !.files[n] =
                    CacheFile(kind, 0, 0, 0,
                              IF kind = "partial_dict" THEN [ids |-> <<1>>] ELSE "",
                              cm.files[n].atime, cm.files[n].size),
                    !.out = NoOutcome]
        /\ UNCHANGED <<dbVars, cg, agg, agent, sa, llm_client, fetcher, pm, batch>>

----------------------------------------------------------------------------
(* AuditAgent of audit_agent.py: its two LocalDB instances (self.db and the *)
(* one PatternMatcher() constructs for itself), and the progress file.      *)

\* the targets of an audit: a path without .sol files, and a project with
\* one high-risk function
AgentTargets ==
    {<<>>,
     <<[file |-> "Vault.sol", cross_function_bugs |-> <<>>,
        functions |-> <<[name |-> "withdraw", risk_score |-> 50,
                         static |-> <<[severity |-> "medium", score |-> 65],
                                      [severity |-> "critical", score |-> 90],
                                      [severity |-> "critical", score |-> 95]>>]>>]>>}

NoProgress == [kind |-> "none", path |-> "", findings_count |-> 0]

\* db: self.db._vector_cache; matcher_db: self.matcher.db._vector_cache;
\* progress_file: Config.PROGRESS_FILE; out: the last call
NewAgentState(progress_file) ==
    [db |-> NoCache, matcher_db |-> NoCache, progress_file |-> progress_file,
     out |-> [op |-> "new", resume |-> FALSE, progress |-> NoProgress, snapshot |-> FALSE]]

\* AuditAgent(): LocalDB() and PatternMatcher(), which calls LocalDB() again
NewAgent ==
    /\ agent' = NewAgentState(agent.progress_file)
    /\ UNCHANGED <<dbVars, cg, agg, cm, sa, llm_client, fetcher, pm, batch>>

\* _load_progress: the dict of the file, None when there is none
_load_progress(progress_file) == progress_file

\* AuditAgent.audit.  The path checks return [] early.  In the try: the
\* snapshot, when load_embedding_cache returns one, is assigned to
\* self.db._vector_cache; then self.matcher.analyze(...) raises
\* AttributeError (PatternMatcher defines only composite_score and
\* analyze_target) and the except returns [].  Nothing after line 159 runs:
\* no _save_progress, no save_embedding_cache.
AuditAgentAudit ==
    \E files \in AgentTargets, sniper \in BOOLEAN, llm \in LlmBehaviours, resume \in BOOLEAN :
        LET valid == files # <<>>
            progress == IF valid /\ resume THEN _load_progress(agent.progress_file)
                        ELSE NoProgress
            r == load_embedding_cache(cm.files[EMBEDDING], cm.access, cm.now)
            found == valid /\ r.hit
        IN  /\ agg' = Run("audit_agent.audit", files, sniper, llm, "list", <<>>)
            /\ cm' = IF valid
                     THEN [cm EXCEPT !.files[EMBEDDING] = r.file,
                             !.out = Outcome("load_embedding_cache", EMBEDDING, 0, r.hit,
                                             r.value, FALSE,
                                             Seen(cm.files[EMBEDDING], cm.access), 0, {})]
                     ELSE cm
            /\ agent' = [agent EXCEPT
                           !.db = IF found THEN r.value ELSE @,
                           !.out = [op |-> "audit", resume |-> resume,
                                    progress |-> progress, snapshot |-> found]]
            /\ UNCHANGED <<dbVars, cg, sa, llm_client, fetcher, pm, batch>>

----------------------------------------------------------------------------
(* Rule engine: StaticAnalyzer of static_analyzer.py.  The source of a     *)
(* function is a sequence of lines taken from SourceLines.                 *)

MaxLines == 3

\* What the substring tests and regular expressions of analyze find in each
\* line: in, the needles of the rules found in the line; in_lower, those found
\* in line.lower() (a needle with a capital letter is never found there);
\* count, line.count(x) where it is not zero; search, the patterns re.search
\* finds; calls, the number of matches of the call pattern of rule 1;
\* delegates, the matches of the delegatecall pattern of rule 2, each with
\* the context needles on the line before the match; weak_rand, the matches
\* of the keccak256(abi.encodePacked(..)) pattern of rule 8, TRUE when the
\* arguments name a block value; asserts, the matches of assert(..) of rule
\* 15, TRUE when the asserted expression holds an "=".
LineFacts ==
       ("function run(bytes calldata d) external {" :>
         [in |-> {"calldata"},
          in_lower |-> {"function"},
          count |-> {<<"bytes", 1>>},
          search |-> {"open_function"},
          calls |-> 0,
          delegates |-> <<>>,
          weak_rand |-> <<>>,
          asserts |-> <<>>])
    @@ ("target.delegatecall(d);" :>
         [in |-> {},
          in_lower |-> {"delegatecall"},
          count |-> {},
          search |-> {},
          calls |-> 0,
          delegates |-> <<{}>>,
          weak_rand |-> <<>>,
          asserts |-> <<>>])
    @@ ("// ERC1967 proxy fallback" :>
         [in |-> {},
          in_lower |-> {"proxy", "fallback"},
          count |-> {},
          search |-> {},
          calls |-> 0,
          delegates |-> <<>>,
          weak_rand |-> <<>>,
          asserts |-> <<>>])
    @@ ("to.call{value: v}(\"\");" :>
         [in |-> {".call"},
          in_lower |-> {"call{value:", ".call{"},
          count |-> {},
          search |-> {},
          calls |-> 1,
          delegates |-> <<>>,
          weak_rand |-> <<>>,
          asserts |-> <<>>])
    @@ ("balances[to] = 0;" :>
         [in |-> {"="},
          in_lower |-> {},
          count |-> {<<"balance", 1>>},
          search |-> {},
          calls |-> 0,
          delegates |-> <<>>,
          weak_rand |-> <<>>,
          asserts |-> <<>>])
    @@ ("assembly { r := delegatecall(g, t, 0, 0, 0, 0) }" :>
         [in |-> {"="},
          in_lower |-> {"delegatecall", "assembly"},
          count |-> {},
          search |-> {},
          calls |-> 0,
          delegates |-> <<>>,
          weak_rand |-> <<>>,
          asserts |-> <<>>])
    @@ ("require(tx.origin == owner);" :>
         [in |-> {"require(", "=", "==", "require"},
          in_lower |-> {"tx.origin", "require("},
          count |-> {<<"owner", 1>>},
          search |-> {},
          calls |-> 0,
          delegates |-> <<>>,
          weak_rand |-> <<>>,
          asserts |-> <<>>])
    @@ ("function withdraw() public {" :>
         [in |-> {},
          in_lower |-> {"withdraw", "function"},
          count |-> {},
          search |-> {"open_function"},
          calls |-> 0,
          delegates |-> <<>>,
          weak_rand |-> <<>>,
          asserts |-> <<>>])

SourceLines == DOMAIN LineFacts

Sources == UNION {[1..n -> SourceLines] : n \in 0..MaxLines}

\* code, split at "\n", is the sequence of its lines; a needle holds no
\* newline, so it is in the code exactly when it is in one of the lines.
In(x, code) == \E i \in DOMAIN code : x \in LineFacts[code[i]].in

InLower(x, code) == \E i \in DOMAIN code : x \in LineFacts[code[i]].in_lower

Search(p, code) == \E i \in DOMAIN code : p \in LineFacts[code[i]].search

RECURSIVE Count(_, _)
Count(x, code) ==
    IF code = <<>> THEN 0
    ELSE LET found == {t \in LineFacts[Head(code)].count : t[1] = x}
         IN  (IF found = {} THEN 0 ELSE (CHOOSE t \in found : TRUE)[2]) + Count(x, Tail(code))

Finding(type, severity, score) ==
    [type |-> type, severity |-> severity, score |-> score]

\* n times findings.append of the same finding
Appended(findings, n, finding) == findings \o [k \in 1..n |-> finding]

AppendedIf(findings, cond, finding) ==
    IF cond THEN Append(findings, finding) ELSE findings

\* 1. Unchecked low-level calls: one finding per match whose 200-character
\* context (the whole source, at these lengths) holds no check.
unchecked_low_level_call(code, findings) ==
    LET sites == UNION {{i} \X (1..LineFacts[code[i]].calls) : i \in DOMAIN code}
        checked == (\E x \in {"require(", "if(", "success", "return", "assert("} : In(x, code))
    IN  Appended(findings, IF checked THEN 0 ELSE Cardinality(sites),
                 Finding("unchecked_low_level_call", "high", 85))

\* 2. Delegatecall injection: one finding per match with calldata, msg.data,
\* storage or sload in the 500 characters before it.
arbitrary_delegatecall(code, findings) ==
    LET context == {"calldata", "msg.data", "storage", "sload"}
        matches == UNION {{i} \X (1..Len(LineFacts[code[i]].delegates)) : i \in DOMAIN code}
        flagged == {m \in matches :
                       \/ LineFacts[code[m[1]]].delegates[m[2]] # {}
                       \/ \E j \in 1..(m[1] - 1) : LineFacts[code[j]].in \cap context # {}}
    IN  Appended(findings,
                 IF InLower("delegatecall", code) THEN Cardinality(flagged) ELSE 0,
                 Finding("arbitrary_delegatecall", "critical", 95))

\* 11. Delegatecall injection via assembly.
assembly_delegatecall_unless_flagged(code, findings) ==
    AppendedIf(findings,
               /\ InLower("assembly", code) /\ InLower("delegatecall", code)
               /\ \A k \in DOMAIN findings : findings[k].type # "arbitrary_delegatecall",
               Finding("assembly_delegatecall", "critical", 95))

assembly_delegatecall(code, findings) ==
    AppendedIf(findings,
               InLower("assembly", code) /\ InLower("delegatecall", code),
               Finding("assembly_delegatecall", "critical", 95))

\* 27. Reentrancy, state change after call: one finding per line holding a
\* call with an assignment in the four lines after it (the break leaves only
\* the scan of that window).
reentrancy_state_change(code, findings) ==
    LET assigns(j) == /\ "=" \in LineFacts[code[j]].in
                      /\ LineFacts[code[j]].in \cap {"==", "!=", ">=", "<="} = {}
        calls == {i \in DOMAIN code :
                     /\ LineFacts[code[i]].in \cap {".call", ".transfer", ".send"} # {}
                     /\ \E j \in (i + 1)..(i + 4) : j \in DOMAIN code /\ assigns(j)}
    IN  Appended(findings,
                 IF (\E x \in {".call{", ".transfer(", ".send("} : InLower(x, code))
                 THEN Cardinality(calls) ELSE 0,
                 Finding("reentrancy_state_change", "high", 88))

\* The rules in the order analyze runs them.
Rules ==
    << "unchecked_low_level_call", "arbitrary_delegatecall", "timestamp_dependence",
       "storage_collision_risk", "erc20_approval_race", "proxy_selector_clash",
       "uninitialized_implementation", "weak_randomness", "tx_origin_usage",
       "unchecked_math_usage", "assembly_delegatecall", "signature_replay",
       "missing_existence_check", "bitwise_shift_check", "state_change_in_assert",
       "block_number_dependence", "ether_lock", "unprotected_selfdestruct",
       "hardcoded_secret", "floating_pragma", "missing_access_control",
       "multiple_pragmas", "abi_encodepacked_collision", "missing_upgrade_gap",
       "unbounded_loop", "variable_shadowing", "reentrancy_state_change",
       "interface_mismatch", "blockhash_current_block", "empty_catch",
       "msg_value_in_loop", "deprecated_suicide", "ecrecover_malleability",
       "missing_zero_address_check", "unchecked_erc20_transfer" >>

\* One check of analyze, appending to the one findings list.
Check(rule, code, findings) ==
    CASE rule = "unchecked_low_level_call" ->
            unchecked_low_level_call(code, findings)
      [] rule = "arbitrary_delegatecall" ->
            arbitrary_delegatecall(code, findings)
    \* 3. Timestamp manipulation dependence.
      [] rule = "timestamp_dependence" ->
            AppendedIf(findings,
                       /\ (\E x \in {"block.timestamp", "now"} : InLower(x, code))
                       /\ Search("timestamp_compare", code),
                       Finding("timestamp_dependence", "low", 40))
    \* 4. Storage collision in proxy contracts.
      [] rule = "storage_collision_risk" ->
            AppendedIf(findings,
                       /\ (\E x \in {"proxy", "implementation", "upgradeable"} : InLower(x, code))
                       /\ Search("storage_declaration", code),
                       Finding("storage_collision_risk", "high", 80))
    \* 5. ERC20 approval race condition.
      [] rule = "erc20_approval_race" ->
            AppendedIf(findings,
                       In("approve(", code) /\ ~In("increaseAllowance", code),
                       Finding("erc20_approval_race", "medium", 55))
    \* 6. Proxy selector clash.
      [] rule = "proxy_selector_clash" ->
            AppendedIf(findings,
                       InLower("fallback", code) /\ InLower("delegatecall", code),
                       Finding("proxy_selector_clash", "high", 75))
    \* 7. Uninitialized proxy implementation.
      [] rule = "uninitialized_implementation" ->
            AppendedIf(findings,
                       /\ In("constructor()", code)
                       /\ ~InLower("initializer", code)
                       /\ (\E x \in {"proxy", "implementation"} : InLower(x, code)),
                       Finding("uninitialized_implementation", "critical", 90))
    \* 8. Weak randomness: one finding per match that packs a block value.
      [] rule = "weak_randomness" ->
            LET matches == UNION {{i} \X (1..Len(LineFacts[code[i]].weak_rand)) : i \in DOMAIN code}
                weak == {m \in matches : LineFacts[code[m[1]]].weak_rand[m[2]]}
            IN  Appended(findings, Cardinality(weak), Finding("weak_randomness", "high", 85))
    \* 9. Improper access control (tx.origin).
      [] rule = "tx_origin_usage" ->
            AppendedIf(findings, InLower("tx.origin", code),
                       Finding("tx_origin_usage", "medium", 65))
    \* 10. Integer overflow/underflow in unchecked blocks.
      [] rule = "unchecked_math_usage" ->
            AppendedIf(findings, InLower("unchecked", code),
                       Finding("unchecked_math_usage", "low", 30))
      [] rule = "assembly_delegatecall" ->
            assembly_delegatecall(code, findings)
    \* 12. Signature replay attacks.
      [] rule = "signature_replay" ->
            AppendedIf(findings,
                       InLower("ecrecover", code) /\ ~InLower("chainid", code),
                       Finding("signature_replay", "high", 80))
    \* 13. Missing contract existence check before low-level calls.
      [] rule = "missing_existence_check" ->
            AppendedIf(findings,
                       In(".call(", code) /\ ~InLower("extcodesize", code),
                       Finding("missing_existence_check", "low", 40))
    \* 14. Incorrect shift operations.
      [] rule = "bitwise_shift_check" ->
            AppendedIf(findings, In("<<", code) \/ In(">>", code),
                       Finding("bitwise_shift_check", "low", 25))
    \* 15. Assert state changes: one finding per assert holding an "=".
      [] rule = "state_change_in_assert" ->
            LET matches == UNION {{i} \X (1..Len(LineFacts[code[i]].asserts)) : i \in DOMAIN code}
                changing == {m \in matches : LineFacts[code[m[1]]].asserts[m[2]]}
            IN  Appended(findings, Cardinality(changing),
                         Finding("state_change_in_assert", "medium", 60))
    \* 16. Block number dependence.
      [] rule = "block_number_dependence" ->
            AppendedIf(findings, InLower("block.number", code),
                       Finding("block_number_dependence", "low", 35))
    \* 17. Ether lock.
      [] rule = "ether_lock" ->
            AppendedIf(findings,
                       /\ In("receive()", code) \/ In("fallback()", code) \/ InLower("payable", code)
                       /\ ~(\E x \in {"withdraw", "transfer", "send", "call{value:"} : InLower(x, code)),
                       Finding("ether_lock", "high", 85))
    \* 18. Unprotected selfdestruct.
      [] rule = "unprotected_selfdestruct" ->
            AppendedIf(findings,
                       /\ InLower("selfdestruct", code)
                       /\ ~In("onlyOwner", code) /\ ~In("require(msg.sender", code),
                       Finding("unprotected_selfdestruct", "critical", 98))
    \* 19. Hardcoded secrets.
      [] rule = "hardcoded_secret" ->
            AppendedIf(findings, Search("secret_literal", code),
                       Finding("hardcoded_secret", "critical", 95))
    \* 20. Floating pragma.
      [] rule = "floating_pragma" ->
            AppendedIf(findings, InLower("pragma solidity", code) /\ In("^", code),
                       Finding("floating_pragma", "low", 20))
    \* 21. Improper access control (missing modifiers).
      [] rule = "missing_access_control" ->
            AppendedIf(findings,
                       /\ Search("open_function", code)
                       /\ (\E x \in {"mint", "burn", "withdraw", "transferOwnership"} : InLower(x, code))
                       /\ ~(\E x \in {"onlyowner", "onlyadmin", "hasrole"} : InLower(x, code)),
                       Finding("missing_access_control", "high", 85))
    \* 22. Multiple Solidity versions (via pragma).
      [] rule = "multiple_pragmas" ->
            AppendedIf(findings, Count("pragma solidity", code) > 1,
                       Finding("multiple_pragmas", "low", 15))
    \* 23. Incorrect use of abi.encodePacked with dynamic types.
      [] rule = "abi_encodepacked_collision" ->
            AppendedIf(findings,
                       /\ InLower("abi.encodePacked", code)
                       /\ Count("string", code) + Count("bytes", code) > 1,
                       Finding("abi_encodepacked_collision", "medium", 50))
    \* 24. Missing __gap variable in upgradeable contracts.
      [] rule = "missing_upgrade_gap" ->
            AppendedIf(findings,
                       /\ InLower("upgradeable", code) /\ InLower("contract", code)
                       /\ ~In("uint256[50] __gap", code),
                       Finding("missing_upgrade_gap", "medium", 45))
    \* 25. Costly loop (unbounded).
      [] rule = "unbounded_loop" ->
            AppendedIf(findings,
                       /\ Search("for_loop", code)
                       /\ InLower("length", code) /\ ~(\E x \in {"limit", "max"} : InLower(x, code)),
                       Finding("unbounded_loop", "medium", 55))
    \* 26. Shadowing state variables: one finding per shadowed name.
      [] rule = "variable_shadowing" ->
            LET shadowed == {var \in {"owner", "balance", "totalSupply"} :
                                /\ Search("assigns_" \o var, code)
                                /\ Search("declares_" \o var, code)
                                /\ Count(var, code) > 2}
            IN  Appended(findings, Cardinality(shadowed), Finding("variable_shadowing", "low", 25))
      [] rule = "reentrancy_state_change" ->
            reentrancy_state_change(code, findings)
    \* 28. Incorrect interface implementation: one finding per interface named.
      [] rule = "interface_mismatch" ->
            LET claimed == {interface \in {"IERC20", "IERC721", "IERC1155"} :
                               In(interface, code) /\ ~InLower("function", code)}
            IN  Appended(findings,
                         IF InLower("interface", code) /\ InLower("contract", code) /\ InLower("is", code)
                         THEN Cardinality(claimed) ELSE 0,
                         Finding("interface_mismatch", "medium", 50))
    \* 29. Use of blockhash(block.number).
      [] rule = "blockhash_current_block" ->
            AppendedIf(findings, InLower("blockhash(block.number)", code),
                       Finding("blockhash_current_block", "high", 80))
    \* 30. Empty catch block.
      [] rule = "empty_catch" ->
            AppendedIf(findings, InLower("catch", code) /\ In("{}", code),
                       Finding("empty_catch", "low", 30))
    \* 31. Misuse of msg.value in a loop.
      [] rule = "msg_value_in_loop" ->
            AppendedIf(findings,
                       InLower("msg.value", code) /\ (InLower("for", code) \/ InLower("while", code)),
                       Finding("msg_value_in_loop", "high", 85))
    \* 32. Use of deprecated 'suicide'.
      [] rule = "deprecated_suicide" ->
            AppendedIf(findings, InLower("suicide(", code),
                       Finding("deprecated_suicide", "low", 20))
    \* 33. Incorrect use of 'ecrecover'.
      [] rule = "ecrecover_malleability" ->
            AppendedIf(findings,
                       InLower("ecrecover", code) /\ ~In("v < 27", code) /\ ~In("v == 27", code),
                       Finding("ecrecover_malleability", "medium", 60))
    \* 34. Missing zero-address check.
      [] rule = "missing_zero_address_check" ->
            AppendedIf(findings,
                       /\ InLower("address", code) /\ In("=", code)
                       /\ InLower("require(", code) /\ ~In("address(0)", code),
                       Finding("missing_zero_address_check", "low", 35))
    \* 35. Return value of transfer/transferFrom not checked.
      [] rule = "unchecked_erc20_transfer" ->
            AppendedIf(findings,
                       /\ Search("transferFrom_call", code) \/ Search("transfer_call", code)
                       /\ ~(\E x \in {"SafeERC20", "safeTransfer"} : In(x, code))
                       /\ ~In("require", code) /\ ~In("if", code),
                       Finding("unchecked_erc20_transfer", "medium", 65))

\* The checks from check k on, run one after the other in the order of the
\* source over the one findings list; analyze runs them all (skipped = {}).
RECURSIVE RunChecks(_, _, _, _)
RunChecks(code, findings, k, skipped) ==
    IF k > Len(Rules) THEN findings
    ELSE RunChecks(code,
                   IF Rules[k] \in skipped THEN findings
                   ELSE Check(Rules[k], code, findings),
                   k + 1, skipped)

analyze(code) == RunChecks(code, <<>>, 1, {})

is_likely_safe_delegatecall(context) ==
    \E safe \in {"ERC1967", "transparent", "upgradeable", "implementation", "eip1167",
                  "proxy", "clones.clone", "minimal proxy"} : InLower(safe, context)

NoAnalysis == [called |-> FALSE, code |-> <<>>, findings |-> <<>>]

\* StaticAnalyzer.analyze(code, filename); filename is not read.
Analyze ==
    \E code \in Sources :
        /\ sa' = [called |-> TRUE, code |-> code, findings |-> analyze(code)]
        /\ UNCHANGED <<dbVars, cg, agg, cm, agent, llm_client, fetcher, pm, batch>>

----------------------------------------------------------------------------
(* Collaborator clients: LLMClient of llm_client.py and SoloditFetcher of  *)
(* solodit_fetcher.py.  Each request to a collaborator is one step; what   *)
(* the collaborator answers is chosen freely at every step.                *)

max_retries == 3

\* Requests that _call_with_retry does not return from: status 429, another
\* status than 200, an exception of requests.post, a body that is not JSON.
HttpFailures == {"rate_limited", "error_status", "network_error", "invalid_body"}

\* JSON bodies of a 200 response, by what extract_invariant finds in them.
Bodies ==
    {"empty", "no_choices", "null_content", "prose", "json_array", "short_invariant",
     "short_break_condition", "bad_preconditions", "valid", "fenced_valid"}

Replies == HttpFailures \cup Bodies

Exceptions == {"KeyError", "TypeError", "ValueError", "AttributeError"}

\* time.sleep of _call_with_retry after failed request i (counted from 0).
Backoff(reply, i) == IF reply = "rate_limited" THEN 2 ^ (i + 2) ELSE 2 ^ i

\* result["choices"][0]["message"]["content"]: the exception it raises, or "none".
content_of(body) == IF body = "no_choices" THEN "KeyError" ELSE "none"

\* _strict_parse(text): the exception it raises, or "none" when it returns
\* an ExtractionResult.  Its own handler turns JSONDecodeError, ValueError
\* and KeyError into ValueError; TypeError and AttributeError pass through it.
_strict_parse(body) ==
    CASE body = "null_content" -> "TypeError"
      [] body = "prose" -> "ValueError"
      [] body = "json_array" -> "AttributeError"
      [] body = "short_invariant" -> "ValueError"
      [] body = "short_break_condition" -> "ValueError"
      [] body = "bad_preconditions" -> "AttributeError"
      [] OTHER -> "none"

StrictResult == [type |-> "ExtractionResult", by |-> "_strict_parse"]

_emergency_extraction == [type |-> "ExtractionResult", by |-> "_emergency_extraction"]

NoResult == [type |-> "None", by |-> "none"]

\* `except ValueError`, in place of the handler of extract_invariant.
except_ValueError(exc) == exc = "ValueError"

\* `except Exception` of extract_invariant: every exception of the model is one.
except_Exception(exc) == exc \in Exceptions

NewLLMClient ==
    [pc |-> "idle", attempt |-> 0, i |-> 0, sent |-> 0, waited |-> 0,
     usable |-> FALSE, ret |-> NoResult, raised |-> "none"]

\* LLMClient.extract_invariant(content, title): up to the first request.
ExtractInvariant ==
    /\ llm_client.pc # "calling"
    /\ llm_client' = [NewLLMClient EXCEPT !.pc = "calling"]
    /\ UNCHANGED <<dbVars, cg, agg, cm, agent, sa, fetcher, pm, batch>>

\* extract_invariant after attempt `attempt` ended without a result: the
\* next attempt, or the fallback after the last one.
NextAttempt(c, wait) ==
    IF c.attempt + 1 < max_retries
    THEN [c EXCEPT !.attempt = @ + 1, !.i = 0, !.sent = 0, !.waited = @ + wait]
    ELSE [c EXCEPT !.pc = "returned", !.ret = _emergency_extraction]

\* One requests.post of _call_with_retry and everything extract_invariant
\* does until the next request or its return.
LlmRequest ==
    /\ llm_client.pc = "calling"
    /\ \E reply \in Replies :
        LET c == [llm_client EXCEPT !.sent = @ + 1]
            exc == IF content_of(reply) # "none" THEN content_of(reply)
                   ELSE _strict_parse(reply)
        IN  llm_client' =
              IF reply \in HttpFailures
              THEN IF llm_client.i + 1 < max_retries
                   THEN [c EXCEPT !.i = @ + 1, !.waited = @ + Backoff(reply, llm_client.i)]
                   ELSE NextAttempt([c EXCEPT !.waited = @ + Backoff(reply, llm_client.i)], 0)
              ELSE IF reply = "empty"
              THEN NextAttempt(c, 0)
              ELSE IF exc = "none"
              THEN [c EXCEPT !.pc = "returned", !.usable = TRUE, !.ret = StrictResult]
              ELSE IF except_Exception(exc)
              THEN NextAttempt(c, 2 ^ llm_client.attempt)
              ELSE [c EXCEPT !.pc = "returned", !.raised = exc]
    /\ UNCHANGED <<dbVars, cg, agg, cm, agent, sa, fetcher, pm, batch>>

MaxPages == 2
MaxBatch == 2
Limits == 1..3

NoCheckpoint == [exists |-> FALSE, findings |-> 0, page |-> 1, complete |-> FALSE]

Checkpoint(findings, page, complete) ==
    [exists |-> TRUE, findings |-> findings, page |-> page, complete |-> complete]

_load_checkpoint(file) ==
    IF file.exists THEN [findings |-> file.findings, page |-> file.page, complete |-> file.complete]
    ELSE [findings |-> 0, page |-> 1, complete |-> FALSE]

NewSoloditFetcher(file) ==
    [pc |-> "idle", cache |-> _load_checkpoint(file), file |-> file,
     limit |-> 0, findings |-> 0, page |-> 1, resp |-> "none", ret |-> 0]

\* SoloditFetcher()
NewFetcher ==
    /\ fetcher.pc # "fetching"
    /\ fetcher' = NewSoloditFetcher(fetcher.file)
    /\ UNCHANGED <<dbVars, cg, agg, cm, agent, sa, llm_client, pm, batch>>

\* fetch_findings after its loop: mark the checkpoint complete and return.
\* A fetch that resumes from cached findings appends to the cached list itself.
Fetched(f, findings, page) ==
    [f EXCEPT !.pc = "returned", !.findings = findings, !.page = page, !.resp = "none",
              !.cache.findings = IF @ > 0 THEN findings ELSE @,
              !.file = Checkpoint(findings, page, TRUE), !.ret = findings]

\* The process ends during a fetch (the interpreter is interrupted between
\* two requests): what stays is the checkpoint file, which the next
\* SoloditFetcher() loads.
Interrupt ==
    /\ fetcher.pc = "fetching"
    /\ fetcher' = NewSoloditFetcher(fetcher.file)
    /\ UNCHANGED <<dbVars, cg, agg, cm, agent, sa, llm_client, pm, batch>>

\* SoloditFetcher.fetch_findings(limit=limit): up to the first request.
FetchFindings ==
    /\ fetcher.pc # "fetching"
    /\ \E limit \in Limits :
        LET f == [fetcher EXCEPT !.limit = limit]
        IN  fetcher' =
              IF fetcher.cache.complete /\ fetcher.cache.findings >= limit
              THEN [f EXCEPT !.pc = "returned", !.ret = limit]
              ELSE IF fetcher.cache.findings >= limit
              THEN Fetched(f, fetcher.cache.findings, fetcher.cache.page)
              ELSE [f EXCEPT !.pc = "fetching", !.findings = fetcher.cache.findings,
                             !.page = fetcher.cache.page, !.resp = "none"]
    /\ UNCHANGED <<dbVars, cg, agg, cm, agent, sa, llm_client, pm, batch>>

FetchFailures == {"rate_limited", "error_status", "network_error"}

\* The pages the collaborator may answer with: the size of the batch, how
\* many of its findings pass the duplicates filter, and metadata.totalPages
\* (0 when the field is missing).
Pages ==
    {[batch |-> b, accepted |-> a, totalPages |-> t] :
        b \in 0..MaxBatch, a \in 0..MaxBatch, t \in 0..MaxPages}

\* One pass of the while loop of fetch_findings: one session.post and the
\* handling of its response (resp: what the last request of the fetch in
\* progress came back with).
FetchRequest ==
    /\ fetcher.pc = "fetching"
    /\ \/ \E failure \in FetchFailures :
            fetcher' =
              IF failure = "network_error"
              THEN [fetcher EXCEPT !.resp = failure,
                                   !.file = Checkpoint(fetcher.findings, fetcher.page, FALSE)]
              ELSE [fetcher EXCEPT !.resp = failure]
       \/ \E p \in Pages :
            /\ p.accepted <= p.batch
            /\ LET findings == IF fetcher.findings + p.accepted >= fetcher.limit
                               THEN fetcher.limit ELSE fetcher.findings + p.accepted
                   total_pages == IF p.totalPages = 0 THEN fetcher.page ELSE p.totalPages
                   saved == [fetcher EXCEPT
                               !.findings = findings, !.page = @ + 1, !.resp = "page",
                               !.cache.findings = IF @ > 0 THEN findings ELSE @,
                               !.file = IF findings % 50 = 0
                                        THEN Checkpoint(findings, fetcher.page + 1, FALSE)
                                        ELSE @]
               IN  fetcher' =
                     IF p.batch = 0
                     THEN Fetched(fetcher, fetcher.findings, fetcher.page)
                     ELSE IF fetcher.page >= total_pages
                     THEN Fetched(fetcher, findings, fetcher.page)
                     ELSE IF findings >= fetcher.limit
                     THEN Fetched(saved, findings, fetcher.page + 1)
                     ELSE saved
    /\ UNCHANGED <<dbVars, cg, agg, cm, agent, sa, llm_client, pm, batch>>

----------------------------------------------------------------------------
(* PatternMatcher.analyze_target, lines 124-213: the body of the loop over *)
(* the high-risk functions, for one function dict that has the keys the    *)
(* loop reads, on what search_similar and generate_hypothesis return to    *)
(* it.  The scores of findings are scaled by 100 too (score 95 is 9500).   *)

MaxSimilar == 2

\* the similarity above which generate_hypothesis is called
HYPOTHESIS_THRESHOLD == 55

\* similarities of search results: at least the default min_score
PatternSims == {50, 60, 100}
\* finders_count and quality_score of a pattern
PatternMetadata == {[finders_count |-> 1, quality_score |-> 5],
                    [finders_count |-> 20, quality_score |-> 0]}
PatternInvariants == {"t1", "cross-function t1"}

\* A result dict of search_similar: similarity, rank_boost and the metadata
\* dict of load_all_vectors, which has no "vuln_class" key (vuln_class is
\* what pattern.get('vuln_class', '') gives).
SearchResult(similarity, metadata, invariant) ==
    [similarity |-> similarity,
     rank_boost |-> _calculate_rank_boost(
                        [finders_count |-> Num(metadata.finders_count),
                         quality_score |-> Num(metadata.quality_score),
                         protocol_category |-> Str("")], similarity, "").boost,
     finders_count |-> metadata.finders_count,
     quality_score |-> metadata.quality_score,
     vuln_class |-> "",
     invariant |-> invariant]

SearchResults ==
    {SearchResult(s, m, inv) :
        s \in PatternSims, m \in PatternMetadata, inv \in PatternInvariants}

\* What search_similar(context, top_k=3) may return: a list in the order of
\* its sort (local_db.py:189), or a single result whose similarity is NaN.
SimilarLists ==
    {s \in UNION {[1..n -> SearchResults] : n \in 0..MaxSimilar} :
        \A i, j \in DOMAIN s : i < j => ~Before(s[j], s[i])}
    \cup {<<[r EXCEPT !.similarity = NaN, !.rank_boost = NaN]>> : r \in SearchResults}

\* the function dicts: code, slither_bugs (by severity), external_calls
FunctionCodes == {<<>>, <<"target.delegatecall(d);">>}
SlitherBugLists == {<<>>, <<"critical">>}
FunctionDicts ==
    [function : {"run"}, code : FunctionCodes, slither_bugs : SlitherBugLists,
     external_calls : {<<>>, <<"target.delegatecall">>}]

\* what generate_hypothesis returns: a list of hypotheses, [] on any failure
HypothesisLists == {<<>>, <<[confidence |-> "High"]>>, <<[confidence |-> "Low"]>>}

NoBug == [type |-> "none", severity |-> "none", score |-> 0]

\* composite_score with the rarity component 25 - finders * 3 not clamped at 0
composite_score_unclamped(similarity, pattern, static_bug) ==
    IF similarity = NaN THEN [conf |-> "Low", score |-> NaN]
    ELSE LET score == similarity * 35
                      + 100 * (25 - pattern.finders_count * 3)
                      + pattern.quality_score * 400
                      + (IF static_bug # NoBug
                            /\ Contains(Lower(static_bug.type), Lower(pattern.vuln_class))
                         THEN 2000 ELSE 0)
         IN  [conf |-> IF score >= 7500 THEN "High"
                       ELSE IF score >= 5500 THEN "Medium" ELSE "Low",
              score |-> score]

\* composite_score(similarity, pattern, static_bug): [conf, score]; a NaN
\* similarity gives the score NaN, which no comparison is true of
composite_score(similarity, pattern, static_bug) ==
    IF similarity = NaN THEN [conf |-> "Low", score |-> NaN]
    ELSE LET rarity == 25 - pattern.finders_count * 3
             score == similarity * 35
                      + 100 * (IF rarity > 0 THEN rarity ELSE 0)
                      + pattern.quality_score * 400
                      + (IF static_bug # NoBug
                            /\ Contains(Lower(static_bug.type), Lower(pattern.vuln_class))
                         THEN 2000 ELSE 0)
         IN  [conf |-> IF score >= 7500 THEN "High"
                       ELSE IF score >= 5500 THEN "Medium" ELSE "Low",
              score |-> score]

MatcherFinding(type, score) == [type |-> type, score |-> score]

\* "cross" in invariant.lower() or "function" in invariant.lower()
IsCrossFunctionInvariant(invariant) == invariant = "cross-function t1"

\* similar and similar[0]["similarity"] > 0.55
hypothesis_invoked(similar) ==
    /\ similar # <<>>
    /\ similar[1].similarity # NaN
    /\ similar[1].similarity > HYPOTHESIS_THRESHOLD

\* One pass of the loop for func: [invoked, findings], the findings in the
\* order they are appended.
analyze_function(func, similar, hypotheses) ==
    LET static_bugs == analyze(func.code)
        static == [i \in DOMAIN static_bugs |->
                     MatcherFinding(IF static_bugs[i].severity = "critical"
                                    THEN "STATIC CRITICAL" ELSE "STATIC HIGH",
                                    static_bugs[i].score * 100)]
        slither == [i \in DOMAIN func.slither_bugs |->
                      IF func.slither_bugs[i] = "critical"
                      THEN MatcherFinding("SLITHER CRITICAL", 9000)
                      ELSE MatcherFinding("SLITHER HIGH", 7500)]
        invoked == hypothesis_invoked(similar)
        historical ==
            IF /\ invoked
               /\ \E i \in DOMAIN similar : IsCrossFunctionInvariant(similar[i].invariant)
               /\ func.external_calls # <<>>
            THEN <<MatcherFinding("HISTORICAL CROSS-FUNCTION MATCH", 9500)>>
            ELSE <<>>
        cs == composite_score(similar[1].similarity, similar[1],
                              IF static_bugs # <<>> THEN static_bugs[1] ELSE NoBug)
        Kept(h) == h.confidence = "High" \/ cs.score >= 7000
        deep == IF invoked
                THEN [i \in DOMAIN SelectSeq(hypotheses, Kept) |->
                        MatcherFinding("DEEP HYPOTHESIS", cs.score)]
                ELSE <<>>
        Match(i) == composite_score(similar[i].similarity, similar[i], NoBug)
        Matches(i) == IF Match(i).score # NaN /\ Match(i).score >= 5000
                      THEN <<MatcherFinding("PATTERN MATCH", Match(i).score)>>
                      ELSE <<>>
        matches == IF Len(similar) = 0 THEN <<>>
                   ELSE IF Len(similar) = 1 THEN Matches(1)
                   ELSE Matches(1) \o Matches(2)
    IN  [invoked |-> invoked,
         findings |-> static \o slither \o historical \o deep \o matches]

NoFunction ==
    [op |-> "none", func |-> [function |-> "", code |-> <<>>, slither_bugs |-> <<>>,
                              external_calls |-> <<>>],
     similar |-> <<>>, invoked |-> FALSE, hypotheses |-> <<>>, findings |-> <<>>]

\* The loop reaches the next high-risk function: up to the search of line
\* 156 (the rule engine and Slither findings are appended before it).
SearchContext ==
    /\ pm.op # "searched"
    /\ \E func \in FunctionDicts, similar \in SimilarLists :
        pm' = [op |-> "searched", func |-> func, similar |-> similar,
               invoked |-> FALSE, hypotheses |-> <<>>, findings |-> <<>>]
    /\ UNCHANGED <<dbVars, cg, agg, cm, agent, sa, llm_client, fetcher, batch>>

\* The rest of the loop body; the hypotheses are what generate_hypothesis
\* returns if it is called.
AnalyzeFunction ==
    /\ pm.op = "searched"
    /\ \E hypotheses \in HypothesisLists :
        LET r == analyze_function(pm.func, pm.similar, hypotheses) IN
        pm' = [pm EXCEPT !.op = "analyzed", !.invoked = r.invoked,
                         !.hypotheses = IF r.invoked THEN hypotheses ELSE <<>>,
                         !.findings = r.findings]
    /\ UNCHANGED <<dbVars, cg, agg, cm, agent, sa, llm_client, fetcher, batch>>

----------------------------------------------------------------------------
(* LLMClient.batch_extract(findings, batch_size): one pass of its loop,    *)
(* the handling of one batch, is one step.  The findings are numbered      *)
(* 1..n in the order of the input list.                                    *)

MaxFindings == 3
BatchSizes == 1..3

\* What the request for a batch comes to: _call_with_retry returns None or
\* raises; the body has no "choices"; the content is not JSON, is a JSON
\* object, is an array of another length than the batch, or is an array
\* with one item per finding of the batch.
BatchReplies ==
    {"none", "raises", "no_choices", "not_json", "json_object", "wrong_length", "array"}

\* an item of the array: a dict with an invariant of 5 characters or more,
\* a dict whose invariant is shorter or missing, or no dict at all
ItemKinds == {"valid", "short_invariant", "not_a_dict"}

\* the ExtractionResult built from an item of the array (lines 333-340)
BatchResult == [type |-> "ExtractionResult", by |-> "batch_extract"]

\* what extract_invariant returns for one finding
IndividualResults == {StrictResult, _emergency_extraction}

\* lines 325-365 without the `continue` of line 355
extract_batch_falls_through(findings, reply, items, individual) ==
    (IF reply = "array"
     THEN [k \in DOMAIN findings |->
             [finding |-> findings[k],
              extraction |-> IF items[k] = "valid" THEN BatchResult
                             ELSE _emergency_extraction]]
     ELSE <<>>)
    \o [k \in DOMAIN findings |->
          [finding |-> findings[k], extraction |-> individual[k]]]

\* Lines 325-365: the results appended for one batch.  Only a list of the
\* length of the batch is taken item by item, an item that raises being
\* replaced by _emergency_extraction; every other reply, and every
\* exception, leads to extract_invariant on each finding of the batch.
extract_batch(findings, reply, items, individual) ==
    IF reply = "array"
    THEN [k \in DOMAIN findings |->
            [finding |-> findings[k],
             extraction |-> IF items[k] = "valid" THEN BatchResult
                            ELSE _emergency_extraction]]
    ELSE [k \in DOMAIN findings |->
            [finding |-> findings[k], extraction |-> individual[k]]]

NewBatch == [pc |-> "idle", n |-> 0, batch_size |-> 0, i |-> 0, results |-> <<>>]

\* batch_extract(findings, batch_size) up to its first batch
BatchExtract ==
    /\ batch.pc # "running"
    /\ \E n \in 0..MaxFindings, batch_size \in BatchSizes :
        batch' = [pc |-> IF n = 0 THEN "returned" ELSE "running", n |-> n,
                  batch_size |-> batch_size, i |-> 0, results |-> <<>>]
    /\ UNCHANGED <<dbVars, cg, agg, cm, agent, sa, llm_client, fetcher, pm>>

\* one pass of `for i in range(0, len(findings), batch_size)`
BatchStep ==
    /\ batch.pc = "running"
    /\ LET last_of_batch == IF batch.i + batch.batch_size < batch.n
                            THEN batch.i + batch.batch_size ELSE batch.n
           findings == [k \in 1..(last_of_batch - batch.i) |-> batch.i + k]
       IN  \E reply \in BatchReplies, items \in [DOMAIN findings -> ItemKinds],
              individual \in [DOMAIN findings -> IndividualResults] :
               batch' = [batch EXCEPT
                           !.results = @ \o extract_batch(findings, reply, items, individual),
                           !.i = @ + batch.batch_size,
                           !.pc = IF batch.i + batch.batch_size >= batch.n
                                  THEN "returned" ELSE "running"]
    /\ UNCHANGED <<dbVars, cg, agg, cm, agent, sa, llm_client, fetcher, pm>>

----------------------------------------------------------------------------
(* Specifications *)

Init ==
    /\ DbInit
    /\ cg = NewAnalyzer(<<>>)
    /\ agg = NoRun
    /\ cm = NewCacheManager
    /\ agent = NewAgentState(NoProgress)
    /\ sa = NoAnalysis
    /\ llm_client = NewLLMClient
    /\ fetcher = NewSoloditFetcher(NoCheckpoint)
    /\ pm = NoFunction
    /\ batch = NewBatch

Next ==
    \/ InitDb
    \/ NewInstance
    \/ AddPattern
    \/ LoadAllVectors
    \/ SearchSimilar

\* one LocalDB on one database file
Spec == Init /\ [][Next]_vars

CallGraphNext ==
    \/ Construct
    \/ BuildGraph
    \/ FindCrossFunctionReentrancy
    \/ FindDelegatecallInjection
    \/ FindFlashLoanEntryPoints

\* one CallGraphAnalyzer on one project
CallGraphSpec == Init /\ [][CallGraphNext]_vars

AggregatorNext ==
    \/ InitDb
    \/ Audit
    \/ AuditAgentAudit

\* audits of one target against one database file
AggregatorSpec == Init /\ [][AggregatorNext]_vars

CacheNext ==
    \/ Tick
    \/ DeleteSource
    \/ Damage
    \/ SetAccess
    \/ SaveEmbeddingCache
    \/ LoadEmbeddingCache
    \/ SaveSlitherResult
    \/ LoadSlitherResult
    \/ SaveLlmResponse
    \/ LoadLlmResponse
    \/ ClearCache
    \/ EnforceSizeLimit

\* one CacheManager on one cache directory
CacheSpec == Init /\ [][CacheNext]_vars

AgentNext ==
    \/ InitDb
    \/ AddPattern
    \/ LoadAllVectors
    \/ SaveEmbeddingCache
    \/ ClearCache
    \/ NewAgent
    \/ AuditAgentAudit

\* audits by AuditAgent instances over one store and one cache directory
AgentSpec == Init /\ [][AgentNext]_vars

StaticNext ==
    \/ Analyze

\* one StaticAnalyzer, one function source per call
StaticSpec == Init /\ [][StaticNext]_vars

CollaboratorNext ==
    \/ ExtractInvariant
    \/ LlmRequest
    \/ NewFetcher
    \/ FetchFindings
    \/ FetchRequest

\* one LLMClient and one SoloditFetcher; a call in progress goes on to its
\* next request (every request carries a timeout and every sleep ends)
CollaboratorSpec ==
    /\ Init
    /\ [][CollaboratorNext]_vars
    /\ WF_vars(LlmRequest)
    /\ WF_vars(FetchRequest)

\* the collaborator clients when the process may end during a fetch and a
\* later process resumes from the checkpoint file
ResumeNext ==
    \/ NewFetcher
    \/ FetchFindings
    \/ FetchRequest
    \/ Interrupt

ResumeSpec == Init /\ [][ResumeNext]_vars

\* the aggregator's analysis of one function after another
MatcherNext ==
    \/ SearchContext
    \/ AnalyzeFunction

MatcherSpec == Init /\ [][MatcherNext]_vars

BatchNext ==
    \/ BatchExtract
    \/ BatchStep

BatchSpec == Init /\ [][BatchNext]_vars

----------------------------------------------------------------------------
(* Claims about the call-graph analyzer *)

Detectors == {"reentrancy", "delegatecall", "flash_loan"}

\* C5: once build_graph has returned False, each of the three detectors
\* returns an empty list.
C5_FailedBuildEmpty ==
    (cg.built = "False" /\ cg.out.op \in Detectors) => cg.out.findings = <<>>

\* the ordered pairs the reentrancy detector is to report for a project
ReentrancyPairs(project) ==
    {<<project[i].name, project[j].name>> : i, j \in DOMAIN project} \cap
    {pair \in FuncNames \X FuncNames :
        \E i, j \in DOMAIN project :
            /\ pair = <<project[i].name, project[j].name>>
            /\ project[i].visibility = "external"
            /\ project[j].name \in Range(project[i].internal_calls)
            /\ project[i].reads \cap project[j].writes # {}
            /\ project[j].external_calls # <<>>}

\* C6: on a built graph the reentrancy detector emits exactly one critical
\* finding, with A before B in its attack path, for each pair (A, B) where A
\* is externally visible, A calls B, reads(A) and writes(B) overlap and B
\* makes an external call, and no finding for any other pair.
C6_ReentrancyExact ==
    (cg.built = "True" /\ cg.out.op = "reentrancy") =>
        LET fs == cg.out.findings IN
        /\ \A pair \in ReentrancyPairs(cg.project) :
               Cardinality({i \in 1..Len(fs) : fs[i].attack_path = pair}) = 1
        /\ \A i \in 1..Len(fs) :
               /\ fs[i].attack_path \in ReentrancyPairs(cg.project)
               /\ fs[i].severity = "critical"

----------------------------------------------------------------------------
(* Claims about the aggregator *)

\* What the sources have for the input of the last audit, as (location,
\* type, score): the cross-function findings of the file, and the rule
\* findings of each high-risk function, typed as analyze_target types them.
CrossScore(type) == IF type = "cross_function_reentrancy" THEN 98 ELSE 85

StaticType(severity) == IF severity = "critical" THEN "STATIC CRITICAL" ELSE "STATIC HIGH"

RECURSIVE Flatten(_)
Flatten(ss) == IF ss = <<>> THEN <<>> ELSE Head(ss) \o Flatten(Tail(ss))

ProducedOfFile(file) ==
    LET cross == [i \in DOMAIN file.cross_function_bugs |->
                    [location |-> file.file, type |-> file.cross_function_bugs[i],
                     score |-> CrossScore(file.cross_function_bugs[i])]]
        high == SelectSeq(file.functions, HighRisk)
        static == [i \in DOMAIN high |->
                    [j \in DOMAIN high[i].static |->
                       [location |-> file.file \o "::" \o high[i].name,
                        type |-> StaticType(high[i].static[j].severity),
                        score |-> high[i].static[j].score]]]
    IN  cross \o Flatten(static)

Produced == IF agg.files = <<>> THEN <<>> ELSE ProducedOfFile(agg.files[1])

Key(f) == <<f.location, f.type>>

WithKey(list, k) == {i \in DOMAIN list : Key(list[i]) = k}

Keys(list) == {Key(list[i]) : i \in DOMAIN list}

Colliding(list) == {k \in Keys(list) : Cardinality(WithKey(list, k)) >= 2}

MaxScore(list, k) ==
    CHOOSE m \in {list[i].score : i \in WithKey(list, k)} :
        \A i \in WithKey(list, k) : list[i].score <= m

Audited == agg.op # "none"

\* C7: when two or more sources' findings share (location, type), the
\* audit returns a finding list, and the list has exactly one finding for
\* each key the sources produced.
C7_OnePerKey ==
    (Audited /\ Colliding(Produced) # {}) =>
        /\ agg.ret = "list"
        /\ \A k \in Keys(Produced) : Cardinality(WithKey(agg.findings, k)) = 1

\* C8: when findings collide on (location, type), the finding kept for the
\* key in the returned list has a score that is at least the larger of the
\* colliding scores and at most 100.
C8_CollisionScore ==
    (Audited /\ Colliding(Produced) # {}) =>
        /\ agg.ret = "list"
        /\ \A k \in Colliding(Produced) :
              \E i \in WithKey(agg.findings, k) :
                  /\ agg.findings[i].score >= MaxScore(Produced, k)
                  /\ agg.findings[i].score <= 100

NonIncreasing(list) ==
    \A i, j \in DOMAIN list : i < j => list[i].score >= list[j].score

\* C9: when the sources have findings, the audit returns them as a list in
\* non-increasing score order; in sniper mode the list has exactly the
\* keys of the findings that score at least the cutoff.
C9_SortedAndFiltered ==
    (Audited /\ Produced # <<>>) =>
        /\ agg.ret = "list"
        /\ NonIncreasing(agg.findings)
        /\ agg.sniper =>
              /\ \A i \in DOMAIN agg.findings : agg.findings[i].score >= SNIPER_CUTOFF
              /\ Keys(agg.findings) = Keys(SelectSeq(Produced, AtLeastCutoff))
        /\ ~agg.sniper => Keys(agg.findings) = Keys(Produced)

\* C10: when the hypothesis collaborator raises or times out, the audit
\* neither raises nor returns an empty list: it returns a list with the
\* findings of the other sources.
C10_LlmFailureTolerated ==
    (Audited /\ agg.llm \in {"raises", "times_out"} /\ Produced # <<>>) =>
        /\ agg.ret = "list"
        /\ agg.findings # <<>>
        /\ \A k \in Keys(IF agg.sniper THEN SelectSeq(Produced, AtLeastCutoff) ELSE Produced) :
              WithKey(agg.findings, k) # {}

----------------------------------------------------------------------------
(* Claims about the cache layer *)

Lookups == {"load_embedding_cache", "load_slither_result", "load_llm_response"}

EntryLookups == {"load_slither_result", "load_llm_response"}

\* the TTL the lookup applied has elapsed since the entry was written
Expired == cm.now - cm.out.pre.timestamp > cm.out.age

\* C11: a lookup of an LLM-response or static-analysis entry made after
\* its TTL has elapsed returns None and removes the entry file; a lookup
\* made within the TTL returns the stored payload.
C11_TtlLookup ==
    (cm.out.op \in EntryLookups /\ cm.out.pre.kind = "ok") =>
        IF Expired
        THEN ~cm.out.hit /\ cm.files[cm.out.file].kind = "none"
        ELSE cm.out.hit /\ cm.out.value = cm.out.pre.payload

\* C11, amended: an expired LLM-response entry is a miss and its file is
\* removed; an expired static-analysis entry is a miss and its file stays
\* as it was written; within the TTL both lookups return the stored payload.
C11_TtlLookupAmended ==
    /\ (cm.out.op = "load_llm_response" /\ cm.out.pre.kind = "ok") =>
          IF Expired
          THEN ~cm.out.hit /\ cm.files[cm.out.file].kind = "none"
          ELSE cm.out.hit /\ cm.out.value = cm.out.pre.payload
    /\ (cm.out.op = "load_slither_result" /\ cm.out.pre.kind = "ok") =>
          IF Expired
          THEN /\ ~cm.out.hit
               /\ cm.files[cm.out.file].kind = "ok"
               /\ cm.files[cm.out.file].timestamp = cm.out.pre.timestamp
               /\ cm.files[cm.out.file].payload = cm.out.pre.payload
          ELSE cm.out.hit /\ cm.out.value = cm.out.pre.payload

\* C11: an expired static-analysis entry was looked up, and an LLM response
\* given as a tuple was stored
C11_ExpiredLookedUp ==
    /\ cm.out.op = "load_slither_result"
    /\ cm.out.pre.kind = "ok"
    /\ Expired
    /\ cm.files[LlmFile("h1")].kind = "ok"
    /\ cm.files[LlmFile("h1")].payload = "list"

\* C12: a lookup that hits a missing, unreadable, corrupted or malformed
\* entry, or the entry of a contract file that no longer exists, returns
\* None and raises nothing.
C12_FailureIsMiss ==
    (cm.out.op \in Lookups /\
        (cm.out.pre.kind # "ok" \/
         (cm.out.op = "load_slither_result" /\ cm.source = NoSource))) =>
        ~cm.out.hit /\ ~cm.out.raised

Saves == {"save_embedding_cache", "save_slither_result", "save_llm_response"}

\* C13: once an operation that can grow the cache, or the size enforcement,
\* is done: if the total size exceeded the cap, entries were evicted, least
\* recently accessed first, down to at most 80% of the cap; if it did not,
\* nothing was evicted.
C13_SizeBounded ==
    (cm.out.op \in Saves \cup {"enforce_size_limit"}) =>
        IF cm.out.total > max_cache_size
        THEN /\ UnderThreshold(_get_total_cache_size(cm.files))
             /\ \A e \in cm.out.evicted : \A n \in Present(cm.files) :
                    e.atime <= cm.files[n].atime
        ELSE cm.out.evicted = {}

----------------------------------------------------------------------------
(* Claims about AuditAgent of audit_agent.py *)

AgentAudited == agent.out.op = "audit" /\ agg.op = "audit_agent.audit"

\* C14: an audit run that finds an existing snapshot searches the snapshot:
\* after it, the index of the LocalDB its matcher searches is the content
\* of the snapshot file, which the run has not rewritten, and not what the
\* store holds.
C14_SnapshotIsIndex ==
    (AgentAudited /\ agent.out.snapshot) =>
        /\ cm.files[EMBEDDING].kind = "ok"
        /\ agent.matcher_db = cm.files[EMBEDDING].payload

\* C20: after an audit of a project with a high-risk function, a checkpoint
\* of the functions processed is in the progress file, and the findings the
\* run returns include those the checkpoint counts.
C20_ResumeCheckpoint ==
    (AgentAudited /\ SelectSeq(AllFunctions(agg.files), HighRisk) # <<>>) =>
        /\ agent.progress_file.kind = "checkpoint"
        /\ Len(agg.findings) >= agent.progress_file.findings_count

----------------------------------------------------------------------------
(* Claims about the rule engine *)

RuleNames == {Rules[k] : k \in DOMAIN Rules}

Types(findings) == {findings[k].type : k \in DOMAIN findings}

Without(findings, rule) == SelectSeq(findings, LAMBDA f : f.type # rule)

\* C15: rule checks do not interfere with each other.  For every function
\* source and every rule, running analyze with that rule left out gives
\* exactly the findings of the full run minus the findings of that rule: what
\* every other rule produces does not depend on whether the rule ran or fired.
C15_NoInterference ==
    sa.called =>
        \A other \in RuleNames :
            RunChecks(sa.code, <<>>, 1, {other}) = Without(sa.findings, other)

\* C15 witness: an analysis in which two rules fired on the same source,
\* the later one after the earlier one had appended its finding.
C15_SeveralRulesFired ==
    /\ sa.called
    /\ {"arbitrary_delegatecall", "assembly_delegatecall"} \subseteq Types(sa.findings)

\* C16: each rule yields 0 or 1 finding: no finding type appears more than
\* once in the result of one analyze call.
C16_OneFindingPerRule ==
    sa.called =>
        \A i, j \in DOMAIN sa.findings :
            i # j => sa.findings[i].type # sa.findings[j].type

\* C17: when the source is a standard proxy context (is_likely_safe_delegatecall
\* is true of it), analyze emits no arbitrary_delegatecall and no
\* assembly_delegatecall finding.
C17_SafeIdiomSuppressed ==
    (sa.called /\ is_likely_safe_delegatecall(sa.code)) =>
        Types(sa.findings) \cap {"arbitrary_delegatecall", "assembly_delegatecall"} = {}

----------------------------------------------------------------------------
(* Claims about the collaborator clients *)

\* C18: extract_invariant never aborts.  Whatever the collaborator answers to
\* each request, the call returns an ExtractionResult and raises nothing; the
\* result is the heuristic fallback exactly when no attempt gave a usable
\* structure.
C18_NeverAborts ==
    llm_client.pc = "returned" =>
        /\ llm_client.raised = "none"
        /\ llm_client.ret.type = "ExtractionResult"
        /\ (llm_client.ret.by = "_emergency_extraction") <=> ~llm_client.usable

\* C18 witness: a call that returned the fallback after its last attempt
\* ended in an exception of the parse.
C18_FellBack ==
    /\ llm_client.pc = "returned"
    /\ llm_client.ret = _emergency_extraction
    /\ llm_client.attempt = max_retries - 1
    /\ llm_client.sent < max_retries

\* C19: every collaborator call site retries a bounded number of times.
\* _call_with_retry never sends more than max_retries requests, and a call
\* of extract_invariant and a call of fetch_findings each return in the end,
\* also when the collaborator fails at every request.
C19_BoundedRetries ==
    /\ [](llm_client.sent <= max_retries)
    /\ (llm_client.pc = "calling") ~> (llm_client.pc = "returned")
    /\ (fetcher.pc = "fetching") ~> (fetcher.pc = "returned")

----------------------------------------------------------------------------
(* Further claims about the pattern store *)

StoredBoost(row, sim, protocol_hint) ==
    sim
    + (IF row.finders_count <= 2 THEN 15
       ELSE IF row.finders_count <= 5 THEN 8 ELSE 0)
    + (row.quality_score * 10) \div 5
    + (IF protocol_hint # ""
          /\ Contains(Lower(protocol_hint), Lower(row.protocol_category))
       THEN 12 ELSE 0)

Qualified(query, min_score) ==
    {i \in 1..Len(rows) :
        Similarity(rows[i].embedding, Encode(query)) >= min_score}

----------------------------------------------------------------------------
(* Further claims about the collaborator clients *)

\* C30: fetch_findings(limit) returns at most limit findings, also when it
\* resumes from a checkpoint or re-requests a page after a network error.
C30_AtMostLimit ==
    fetcher.pc = "returned" => fetcher.ret <= fetcher.limit

----------------------------------------------------------------------------
(* Further claims about the aggregator *)

\* C28: every cross-function finding the per-file analysis produced for the
\* target of an audit is in the finding list the audit returns (in sniper
\* mode: every one that scores at least the cutoff), the patterns table
\* being there.
C28_CrossFunctionCollected ==
    (Audited /\ agg.files # <<>> /\ agg.ret # "OperationalError") =>
        LET bugs == agg.files[1].cross_function_bugs
            Due(i) == ~agg.sniper \/ CrossScore(bugs[i]) >= SNIPER_CUTOFF
        IN  \A i \in DOMAIN bugs :
                Due(i) =>
                    /\ agg.ret = "list"
                    /\ \E j \in DOMAIN agg.findings :
                           agg.findings[j].score = CrossScore(bugs[i])

\* C24: a batch_extract call that has returned holds exactly one result
\* per input finding, in input order, each pairing the finding with an
\* ExtractionResult, whatever the batch size and whatever the collaborator
\* answered for each batch.
C24_OneResultPerFinding ==
    batch.pc = "returned" =>
        /\ Len(batch.results) = batch.n
        /\ \A k \in DOMAIN batch.results :
               /\ batch.results[k].finding = k
               /\ batch.results[k].extraction.type = "ExtractionResult"

\* C24, its case: a call over several batches has returned, one batch taken
\* from the array of the reply (with a malformed item) and one extracted
\* finding by finding.
C24_BatchAndFallback ==
    /\ batch.pc = "returned"
    /\ batch.n > batch.batch_size
    /\ \E j, k, m \in DOMAIN batch.results :
           /\ batch.results[j].extraction = BatchResult
           /\ batch.results[k].extraction = _emergency_extraction
           /\ batch.results[m].extraction = StrictResult

====
